---- MODULE Spec2Model ----
(***************************************************************************)
(* Verification model of the converter pipeline:                           *)
(*   - the job queue daemon (converter/daemon.py),                         *)
(*   - the cursor-paged sync engine (converter/sync.py),                   *)
(*   - the receiver reader (converter/adapters/receiver.py),               *)
(*   - the catalog writer (converter/adapters/catalog.py).                 *)
(*                                                                         *)
(* The module holds several specifications over one set of variables:      *)
(*   Spec        the daemon: concurrent enqueue calls, start/stop, worker  *)
(*   SpecSync    one sync job over a static receiver, with the catalog     *)
(*   SpecCatalog sequences of upsert_many calls on the catalog             *)
(*   SpecFetch   fetch_batch as a function of its arguments                *)
(* Each specification leaves the variables of the other parts unchanged.   *)
(***************************************************************************)
EXTENDS Integers, Sequences, FiniteSets, TLC

(***************************************************************************)
(* Bounds of the model.                                                    *)
(***************************************************************************)
\* largest max_queue_size given to the daemon's constructor
MaxQueueSize == 2
\* total number of enqueue calls in a behaviour (caps the four counters)
MaxCalls == 2
\* total number of records handed to upsert_many in a behaviour
MaxRecords == 3
\* total number of POST requests in a behaviour
MaxRequests == 3

\* URLs in the list given to one delete_images call
MaxUrls == 2

(***************************************************************************)
(* Text values.  A Python str is modelled by its content after strip() and *)
(* lower() (base), plus whether it carries surrounding whitespace (pad)    *)
(* and upper-case letters (upper).  The empty content is "".               *)
(***************************************************************************)
Txt(b, p, u) == [base |-> b, pad |-> p, upper |-> u]

\* str.strip()
Strip(s) == [s EXCEPT !.pad = FALSE]

\* str.lower()
Lower(s) == [s EXCEPT !.upper = FALSE]

\* truthiness of a str: non-empty (whitespace counts as content)
Truthy(s) == s.base # "" \/ s.pad

\* the literal "fixprice"
FIXPRICE == Txt("fixprice", FALSE, FALSE)

\* None where a str is expected (no real text has this content)
NoText == Txt("None", FALSE, FALSE)

\* _safe_str
safe_text(value) ==
    IF value = NoText \/ Strip(value).base = "" THEN NoText ELSE Strip(value)

(***************************************************************************)
(* QueueJob (daemon.py:19-43).                                             *)
(***************************************************************************)
QueueJob(r, c, p, bs, mb, rid, src) ==
    [receiver_db |-> r, catalog_db |-> c, parser_name |-> p,
     batch_size |-> bs, max_batches |-> mb, run_id |-> rid, source |-> src]

\* QueueJob.dedupe_key
dedupe_key_no_lower(job) ==
    <<Strip(job.receiver_db), Strip(job.catalog_db),
      IF Truthy(Strip(job.parser_name)) THEN Strip(job.parser_name) ELSE FIXPRICE>>

dedupe_key(job) ==
    <<Strip(job.receiver_db), Strip(job.catalog_db),
      IF Truthy(Lower(Strip(job.parser_name)))
      THEN Lower(Strip(job.parser_name)) ELSE FIXPRICE>>

\* the jobs clients submit
JobInputs ==
    { QueueJob(Txt("recv", FALSE, FALSE), Txt("cat", FALSE, FALSE),
               Txt("fixprice", FALSE, FALSE), 250, 0, "none", "receiver"),
      QueueJob(Txt("recv", FALSE, FALSE), Txt("cat", FALSE, FALSE),
               Txt("fixprice", TRUE, TRUE), 1, 2, "run-7", "cron"),
      QueueJob(Txt("recv", TRUE, FALSE), Txt("cat", FALSE, FALSE),
               Txt("chizhik", FALSE, FALSE), 250, 0, "none", "receiver") }

NoJob == QueueJob(Txt("", FALSE, FALSE), Txt("", FALSE, FALSE),
                  Txt("", FALSE, FALSE), 0, 0, "none", "none")

\* the client threads calling enqueue concurrently
Threads == {"t1", "t2"}
\* the worker threads start() may create, in this order
WorkerIds == {"w1", "w2"}
FirstWorker == "w1"

VARIABLES
    \* ---- daemon (ConverterDaemon.__init__, daemon.py:64-82)
    queue,              \* _queue: FIFO of items, a job or the stop sentinel
    pending_keys,       \* _pending_keys
    active_keys,        \* _active_keys
    total_enqueued,     \* _total_enqueued
    total_duplicates,   \* _total_duplicates
    total_processed,    \* _total_processed
    total_failed,       \* _total_failed
    stop_event,         \* _stop_event
    worker,             \* _worker: the last thread created, "none" for None
    wthread,            \* the worker threads: position in _worker_loop
    ecall,              \* the enqueue call each client thread is in
    eresult,            \* the EnqueueResult returned last
    stopper,            \* position of the thread calling stop()
    ncalls,             \* enqueue calls made so far
    nput,               \* jobs put on the queue so far; the n-th has id n
    nstarted,           \* jobs the worker has started so far
    lastStarted,        \* id of the job started last
    started,            \* start() has returned and stop() was not called since
    max_queue_size,     \* the max_queue_size given to the constructor
    server,             \* ConverterDaemonHTTPServer: auth_token and defaults
    response            \* the HTTP response sent last, with their number

daemonVars == <<queue, pending_keys, active_keys, total_enqueued,
                total_duplicates, total_processed, total_failed, stop_event,
                worker, wthread, ecall, eresult, stopper, ncalls, nput,
                nstarted, lastStarted, started, max_queue_size, server,
                response>>

VARIABLES
    \* ---- receiver database (adapters/receiver.py)
    receiver,           \* rows of run_artifact_products joined with run_artifacts
    fetched,            \* arguments and result of the last fetch_batch call
    \* ---- one run of ConverterSyncService.run (sync.py:107-166)
    sync_job,           \* the SyncJob being run
    spc,                \* position in run
    watermark,          \* (watermark_ingested_at, watermark_product_id)
    raw_records,        \* the batch fetched last
    batches,            \* batches
    run_total,          \* total_processed of the run
    events,             \* the SyncBatchEvents of the run, as on_batch gets them
    execution,          \* JobExecution.success of the last run
    \* ---- catalog database (adapters/catalog.py)
    catalog,            \* the committed tables
    session,            \* the SQLAlchemy session of upsert_many
    uuid,               \* number of uuid4() values drawn so far
    submitted,          \* records handed to upsert_many so far
    carried,            \* (parser, plu, canonical id) of the records upserted
    \* ---- image storage (adapters/storage_http.py)
    storage,            \* the storage client and its delete_images calls
    \* ---- a function of the catalog or of a handler called on its own
    called              \* the call made last: its arguments and what it gave

receiverVars == <<receiver, fetched>>
syncVars == <<sync_job, spc, watermark, raw_records, batches, run_total, events,
             execution>>
catalogVars == <<catalog, session, uuid, submitted, carried>>
storageVars == <<storage>>
callVars == <<called>>
pipelineVars == <<receiverVars, syncVars, catalogVars, storageVars, callVars>>

vars == <<daemonVars, pipelineVars>>

\* no call made yet
NoCall == [op |-> "none"]

\* an item of the queue
JobItem(job, id) == [kind |-> "job", job |-> job, id |-> id]
STOP_SENTINEL == [kind |-> "stop", job |-> NoJob, id |-> 0]

NoResult == [accepted |-> FALSE, duplicate |-> FALSE, reason |-> "none",
             queue_size |-> 0, key |-> dedupe_key(NoJob)]

EnqueueResult(acc, dup, reason, qsize, key) ==
    [accepted |-> acc, duplicate |-> dup, reason |-> reason,
     queue_size |-> qsize, key |-> key]

IdleCall == [pc |-> "idle", job |-> NoJob]
Unborn == [pc |-> "unborn", item |-> STOP_SENTINEL, success |-> FALSE]

\* the values of max_queue_size the daemon is constructed with
QueueSizes == 0..MaxQueueSize

\* queue.Queue(maxsize=max(1, int(max_queue_size)))
maxsize == IF max_queue_size > 1 THEN max_queue_size ELSE 1

\* Thread.is_alive()
is_alive(w) == wthread[w].pc \notin {"unborn", "dead"}

DaemonInit ==
    /\ max_queue_size \in QueueSizes
    /\ queue = <<>>
    /\ pending_keys = {}
    /\ active_keys = {}
    /\ total_enqueued = 0
    /\ total_duplicates = 0
    /\ total_processed = 0
    /\ total_failed = 0
    /\ stop_event = FALSE
    /\ worker = "none"
    /\ wthread = [w \in WorkerIds |-> Unborn]
    /\ ecall = [t \in Threads |-> IdleCall]
    /\ eresult = NoResult
    /\ stopper = "idle"
    /\ ncalls = 0
    /\ nput = 0
    /\ nstarted = 0
    /\ lastStarted = 0
    /\ started = FALSE

(***************************************************************************)
(* ConverterDaemon.start: the whole body runs under _lock.                 *)
(***************************************************************************)
StartNoAliveCheck ==
    /\ \E w \in WorkerIds :
          /\ wthread[w].pc = "unborn"
          /\ w # FirstWorker => wthread[FirstWorker].pc # "unborn"
          /\ stop_event' = FALSE
          /\ worker' = w
          /\ wthread' = [wthread EXCEPT ![w].pc = "poll"]
    /\ started' = TRUE
    /\ UNCHANGED <<queue, pending_keys, active_keys, total_enqueued,
                   total_duplicates, total_processed, total_failed, ecall,
                   eresult, stopper, ncalls, nput, nstarted, lastStarted,
                   max_queue_size, server, response,
                   pipelineVars>>

start ==
    IF worker # "none" /\ is_alive(worker)
    THEN /\ started' = TRUE
         /\ UNCHANGED <<queue, pending_keys, active_keys, total_enqueued,
                        total_duplicates, total_processed, total_failed,
                        stop_event, worker, wthread, ecall, eresult, stopper,
                        ncalls, nput, nstarted, lastStarted, max_queue_size,
                        server, response, pipelineVars>>
    ELSE StartNoAliveCheck

(***************************************************************************)
(* ConverterDaemon.stop: set the event, then push the sentinel without     *)
(* blocking; the join that follows changes no state.                       *)
(***************************************************************************)
\* a stop() that also ends the thread of the job being executed
StopSetEventCancels ==
    /\ stopper = "idle"
    /\ stop_event' = TRUE
    /\ stopper' = "put"
    /\ started' = FALSE
    /\ wthread' = [w \in WorkerIds |->
                      IF wthread[w].pc = "run"
                      THEN [wthread[w] EXCEPT !.pc = "dead"] ELSE wthread[w]]
    /\ UNCHANGED <<queue, pending_keys, active_keys, total_enqueued,
                   total_duplicates, total_processed, total_failed, worker,
                   ecall, eresult, ncalls, nput, nstarted, lastStarted,
                   max_queue_size, server, response, pipelineVars>>

stop_set_event ==
    /\ stopper = "idle"
    /\ stop_event' = TRUE
    /\ stopper' = "put"
    /\ started' = FALSE
    /\ UNCHANGED <<queue, pending_keys, active_keys, total_enqueued,
                   total_duplicates, total_processed, total_failed, worker,
                   wthread, ecall, eresult, ncalls, nput, nstarted, lastStarted,
                   max_queue_size, server, response,
                   pipelineVars>>

stop_put_sentinel ==
    /\ stopper = "put"
    /\ queue' = IF Len(queue) < maxsize
                THEN Append(queue, STOP_SENTINEL) ELSE queue
    /\ stopper' = "idle"
    /\ UNCHANGED <<pending_keys, active_keys, total_enqueued, total_duplicates,
                   total_processed, total_failed, stop_event, worker, wthread,
                   ecall, eresult, ncalls, nput, nstarted, lastStarted, started,
                   max_queue_size, server, response,
                   pipelineVars>>

(***************************************************************************)
(* ConverterDaemon.enqueue: three sections under _lock with the            *)
(* put_nowait between them outside the lock.                               *)
(***************************************************************************)
EnqueueCheckPendingOnly(t, job) ==
    /\ ecall[t].pc = "idle"
    /\ ncalls < MaxCalls
    /\ ncalls' = ncalls + 1
    /\ IF dedupe_key(job) \in pending_keys
       THEN /\ total_duplicates' = total_duplicates + 1
            /\ eresult' =
                  EnqueueResult(FALSE, TRUE, "duplicate", Len(queue), dedupe_key(job))
            /\ UNCHANGED <<pending_keys, ecall>>
       ELSE /\ pending_keys' = pending_keys \cup {dedupe_key(job)}
            /\ ecall' = [ecall EXCEPT ![t] =
                  [pc |-> "put", job |-> job]]
            /\ eresult' = NoResult
            /\ UNCHANGED total_duplicates
    /\ UNCHANGED <<queue, active_keys, total_enqueued, total_processed,
                   total_failed, stop_event, worker, wthread, stopper, nput,
                   nstarted, lastStarted, started,
                   max_queue_size, server,
                   pipelineVars>>

enqueue_check(t, job) ==
    /\ ecall[t].pc = "idle"
    /\ ncalls < MaxCalls
    /\ ncalls' = ncalls + 1
    /\ IF dedupe_key(job) \in pending_keys \/ dedupe_key(job) \in active_keys
       THEN /\ total_duplicates' = total_duplicates + 1
            /\ eresult' =
                  EnqueueResult(FALSE, TRUE, "duplicate", Len(queue), dedupe_key(job))
            /\ UNCHANGED <<pending_keys, ecall>>
       ELSE /\ pending_keys' = pending_keys \cup {dedupe_key(job)}
            /\ ecall' = [ecall EXCEPT ![t] =
                  [pc |-> "put", job |-> job]]
            /\ eresult' = NoResult
            /\ UNCHANGED total_duplicates
    /\ UNCHANGED <<queue, active_keys, total_enqueued, total_processed,
                   total_failed, stop_event, worker, wthread, stopper, nput,
                   nstarted, lastStarted, started,
                   max_queue_size, server,
                   pipelineVars>>

enqueue_put(t) ==
    /\ ecall[t].pc = "put"
    /\ IF Len(queue) < maxsize
       THEN /\ queue' = Append(queue, JobItem(ecall[t].job, nput + 1))
            /\ nput' = nput + 1
            /\ ecall' = [ecall EXCEPT ![t].pc = "accepted"]
       ELSE /\ ecall' = [ecall EXCEPT ![t].pc = "full"]
            /\ UNCHANGED <<queue, nput>>
    /\ UNCHANGED <<pending_keys, active_keys, total_enqueued, total_duplicates,
                   total_processed, total_failed, stop_event, worker, wthread,
                   eresult, stopper, ncalls, nstarted, lastStarted, started,
                   max_queue_size, server, response,
                   pipelineVars>>

\* an except queue.Full branch that leaves the key pending
EnqueueFullKeepsPending(t) ==
    /\ ecall[t].pc = "full"
    /\ eresult' =
          EnqueueResult(FALSE, FALSE, "queue_full", Len(queue),
                        dedupe_key(ecall[t].job))
    /\ ecall' = [ecall EXCEPT ![t] = IdleCall]
    /\ UNCHANGED <<queue, pending_keys, active_keys, total_enqueued,
                   total_duplicates, total_processed, total_failed, stop_event,
                   worker, wthread, stopper, ncalls, nput, nstarted,
                   lastStarted, started, max_queue_size, server, pipelineVars>>

enqueue_full(t) ==
    /\ ecall[t].pc = "full"
    /\ pending_keys' = pending_keys \ {dedupe_key(ecall[t].job)}
    /\ eresult' =
          EnqueueResult(FALSE, FALSE, "queue_full", Len(queue),
                        dedupe_key(ecall[t].job))
    /\ ecall' = [ecall EXCEPT ![t] = IdleCall]
    /\ UNCHANGED <<queue, active_keys, total_enqueued, total_duplicates,
                   total_processed, total_failed, stop_event, worker, wthread,
                   stopper, ncalls, nput, nstarted, lastStarted, started,
                   max_queue_size, server,
                   pipelineVars>>

enqueue_accepted(t) ==
    /\ ecall[t].pc = "accepted"
    /\ total_enqueued' = total_enqueued + 1
    /\ eresult' =
          EnqueueResult(TRUE, FALSE, "accepted", Len(queue),
                        dedupe_key(ecall[t].job))
    /\ ecall' = [ecall EXCEPT ![t] = IdleCall]
    /\ UNCHANGED <<queue, pending_keys, active_keys, total_duplicates,
                   total_processed, total_failed, stop_event, worker, wthread,
                   stopper, ncalls, nput, nstarted, lastStarted, started,
                   max_queue_size, server,
                   pipelineVars>>

(***************************************************************************)
(* ConverterDaemon._worker_loop, one action per step of the loop body.     *)
(***************************************************************************)
\* a poll that goes on polling on Empty without looking at the stop event
WorkerGetIgnoresEvent(w) ==
    /\ wthread[w].pc = "poll"
    /\ IF queue = <<>>
       THEN UNCHANGED <<queue, wthread>>
       ELSE /\ queue' = Tail(queue)
            /\ wthread' = [wthread EXCEPT ![w] =
                  IF Head(queue).kind = "stop"
                  THEN [@ EXCEPT !.pc = "dead"]
                  ELSE [@ EXCEPT !.pc = "got", !.item = Head(queue)]]
    /\ UNCHANGED <<pending_keys, active_keys, total_enqueued, total_duplicates,
                   total_processed, total_failed, stop_event, worker, ecall,
                   eresult, stopper, ncalls, nput, nstarted, lastStarted, started,
                   max_queue_size, server, response, pipelineVars>>

\* queue.get(timeout=0.25): an item, or Empty after the timeout
worker_get(w) ==
    /\ wthread[w].pc = "poll"
    /\ IF queue = <<>>
       THEN /\ wthread' = [wthread EXCEPT ![w].pc =
                              IF stop_event THEN "dead" ELSE "poll"]
            /\ UNCHANGED queue
       ELSE /\ queue' = Tail(queue)
            /\ wthread' = [wthread EXCEPT ![w] =
                  IF Head(queue).kind = "stop"
                  THEN [@ EXCEPT !.pc = "dead"]
                  ELSE [@ EXCEPT !.pc = "got", !.item = Head(queue)]]
    /\ UNCHANGED <<pending_keys, active_keys, total_enqueued, total_duplicates,
                   total_processed, total_failed, stop_event, worker, ecall,
                   eresult, stopper, ncalls, nput, nstarted, lastStarted, started,
                   max_queue_size, server, response,
                   pipelineVars>>

\* with _lock: pending.discard(key); active.add(key)
worker_move(w) ==
    /\ wthread[w].pc = "got"
    /\ pending_keys' = pending_keys \ {dedupe_key(wthread[w].item.job)}
    /\ active_keys' = active_keys \cup {dedupe_key(wthread[w].item.job)}
    /\ nstarted' = nstarted + 1
    /\ lastStarted' = wthread[w].item.id
    /\ wthread' = [wthread EXCEPT ![w].pc = "run"]
    /\ UNCHANGED <<queue, total_enqueued, total_duplicates, total_processed,
                   total_failed, stop_event, worker, ecall, eresult, stopper,
                   ncalls, nput, started,
                   max_queue_size, server, response,
                   pipelineVars>>

\* a _run_job that lets the exception of the sync run end the thread
RunJobUncaught(w) ==
    /\ wthread[w].pc = "run"
    /\ \E ok \in BOOLEAN :
          wthread' = [wthread EXCEPT ![w].pc = IF ok THEN "fin" ELSE "dead",
                                     ![w].success = ok]
    /\ UNCHANGED <<queue, pending_keys, active_keys, total_enqueued,
                   total_duplicates, total_processed, total_failed, stop_event,
                   worker, ecall, eresult, stopper, ncalls, nput, nstarted,
                   lastStarted, started, max_queue_size, server, response, pipelineVars>>

\* _run_job: the sync run returns an outcome or raises; both are caught
run_job(w) ==
    /\ wthread[w].pc = "run"
    /\ \E ok \in BOOLEAN :
          wthread' = [wthread EXCEPT ![w].pc = "fin", ![w].success = ok]
    /\ UNCHANGED <<queue, pending_keys, active_keys, total_enqueued,
                   total_duplicates, total_processed, total_failed, stop_event,
                   worker, ecall, eresult, stopper, ncalls, nput, nstarted, lastStarted, started,
                   max_queue_size, server, response,
                   pipelineVars>>

\* a worker that counts the outcome and leaves the key in active
WorkerFinishKeepsActive(w) ==
    /\ wthread[w].pc = "fin"
    /\ IF wthread[w].success
       THEN total_processed' = total_processed + 1 /\ UNCHANGED total_failed
       ELSE total_failed' = total_failed + 1 /\ UNCHANGED total_processed
    /\ wthread' = [wthread EXCEPT ![w] = [Unborn EXCEPT !.pc = "poll"]]
    /\ UNCHANGED <<queue, pending_keys, active_keys, total_enqueued,
                   total_duplicates, stop_event, worker, ecall, eresult,
                   stopper, ncalls, nput, nstarted, lastStarted, started,
                   max_queue_size, server, response, pipelineVars>>

\* with _lock: active.discard(key); count the outcome; then task_done()
worker_finish(w) ==
    /\ wthread[w].pc = "fin"
    /\ active_keys' = active_keys \ {dedupe_key(wthread[w].item.job)}
    /\ IF wthread[w].success
       THEN total_processed' = total_processed + 1 /\ UNCHANGED total_failed
       ELSE total_failed' = total_failed + 1 /\ UNCHANGED total_processed
    /\ wthread' = [wthread EXCEPT ![w] = [Unborn EXCEPT !.pc = "poll"]]
    /\ UNCHANGED <<queue, pending_keys, total_enqueued, total_duplicates,
                   stop_event, worker, ecall, eresult, stopper, ncalls, nput,
                   nstarted, lastStarted, started,
                   max_queue_size, server, response,
                   pipelineVars>>

(***************************************************************************)
(* Properties of the daemon.                                               *)
(***************************************************************************)
\* the jobs a worker thread holds: dequeued and not yet recorded as finished
Holding(w) == wthread[w].pc \in {"got", "run", "fin"}

QueuedWithKey(k) ==
    Cardinality({i \in 1..Len(queue) :
                    queue[i].kind = "job" /\ dedupe_key(queue[i].job) = k})

HeldWithKey(k) ==
    Cardinality({w \in WorkerIds :
                    Holding(w) /\ dedupe_key(wthread[w].item.job) = k})

JobKeys == {dedupe_key(job) : job \in JobInputs}

\* C1: under any interleaving of enqueue calls and the worker there is at
\* most one job per dedupe key across the queue and the job being executed:
\* a key is never queued twice and never queued while a job with that key
\* is held by the worker.
C1_OneJobPerKey ==
    \A k \in JobKeys : QueuedWithKey(k) + HeldWithKey(k) <= 1

\* C1 witness: a job is running, its key is active and no longer pending,
\* and an enqueue with that key has just been answered "duplicate".
C1_Witness ==
    \E w \in WorkerIds :
        /\ wthread[w].pc = "run"
        /\ eresult.reason = "duplicate"
        /\ eresult.key = dedupe_key(wthread[w].item.job)
        /\ eresult.key \in active_keys \ pending_keys
        /\ QueuedWithKey(eresult.key) = 0

\* two jobs that differ at most in batch_size, max_batches, run_id, source
\* and in the case or surrounding whitespace of parser_name
DifferOnlyInIgnoredFields(j1, j2) ==
    /\ j1.receiver_db = j2.receiver_db
    /\ j1.catalog_db = j2.catalog_db
    /\ j1.parser_name.base = j2.parser_name.base

\* C2: an enqueue whose key is pending or active answers accepted=false,
\* duplicate=true, reason "duplicate", adds one to total_duplicates and puts
\* nothing on the queue (no key is added to pending, no put is started);
\* jobs that differ only in the ignored fields have the same key.
C2_DuplicateEnqueue ==
    /\ [][ncalls' # ncalls =>
            \/ \E t \in Threads :
                  /\ ecall[t].pc = "idle"
                  /\ ecall'[t].pc = "put"
                  /\ dedupe_key(ecall'[t].job) \notin pending_keys \cup active_keys
            \/ /\ eresult'.accepted = FALSE
               /\ eresult'.duplicate = TRUE
               /\ eresult'.reason = "duplicate"
               /\ eresult'.key \in pending_keys \cup active_keys
               /\ total_duplicates' = total_duplicates + 1
               /\ total_enqueued' = total_enqueued
               /\ queue' = queue
               /\ pending_keys' = pending_keys
               /\ active_keys' = active_keys
               /\ ecall' = ecall]_vars
    /\ [](\A j1, j2 \in JobInputs :
             DifferOnlyInIgnoredFields(j1, j2) => dedupe_key(j1) = dedupe_key(j2))

\* C2 witness: the second of two enqueues with the same key was answered
\* "duplicate" and the queue holds exactly one job.
C2_Witness ==
    /\ eresult.reason = "duplicate"
    /\ total_duplicates = 1
    /\ total_enqueued = 1
    /\ Len(queue) = 1
    /\ queue[1].kind = "job"
    /\ eresult.key = dedupe_key(queue[1].job)

\* C3: jobs are executed one at a time and in FIFO order: at most one worker
\* thread holds a job, and the n-th job started is the n-th job put on the
\* queue, for every sequence of start, stop and enqueue calls.
C3_SequentialFifo ==
    /\ Cardinality({w \in WorkerIds : Holding(w)}) <= 1
    /\ lastStarted = nstarted

\* C3 witness: after a stop and a second start, the second worker thread
\* runs the second job queued.
C3_Witness ==
    /\ wthread["w2"].pc = "run"
    /\ wthread["w1"].pc = "dead"
    /\ nstarted = 2
    /\ wthread["w2"].item.id = 2

(***************************************************************************)
(* Values shared by the receiver, the sync engine and the catalog.         *)
(***************************************************************************)
\* Python None where a str is expected
None == "None"

\* an optional int: <<>> for None, <<n>> for n
NoInt == <<>>
Some(n) == <<n>>

\* int(x or 0)
int_or_0(x) == IF x = NoInt THEN 0 ELSE x[1]

Max(a, b) == IF a > b THEN a ELSE b

(***************************************************************************)
(* Timestamps.  run_artifacts.ingested_at is a TEXT column: a timestamp is *)
(* the text of an instant t of one day, written with a fixed-width time    *)
(* followed by nothing (naive), by "+00:00" or by "Z".  Texts compare as   *)
(* strings: by the time part, then by the suffix, "" < "+00:00" < "Z".     *)
(***************************************************************************)
Stamp(t, suf) == [t |-> t, suf |-> suf]

\* None, and the empty string, as a timestamp argument
NoStamp == [t |-> 0, suf |-> "None"]
EmptyStamp == [t |-> 0, suf |-> "empty"]

SufRank(suf) == CASE suf = "" -> 0 [] suf = "+00:00" -> 1 [] suf = "Z" -> 2

\* str < str
TextLess(x, y) == x.t < y.t \/ (x.t = y.t /\ SufRank(x.suf) < SufRank(y.suf))

\* _parse_datetime: the aware datetime of a text, as its UTC instant; "Z" is
\* read as "+00:00" and a naive value is taken as UTC
parse_datetime(s) == s.t

\* datetime.isoformat() of an aware UTC datetime
isoformat(dt) == Stamp(dt, "+00:00")

\* _safe_str: None and the empty string give None
safe_str(s) == IF s = EmptyStamp THEN NoStamp ELSE s

(***************************************************************************)
(* Receiver (adapters/receiver.py).  A row is a run_artifact_products row  *)
(* joined with its run_artifacts row.                                      *)
(***************************************************************************)
ReceiverRow(id, parser, at, run, plu, sku, title, image, cats) ==
    [id |-> id, parser_name |-> parser, ingested_at |-> at, run_id |-> run,
     plu |-> plu, sku |-> sku, title |-> title, main_image |-> image,
     categories |-> cats]

\* source ids: a given one, "receiver:<run>:<id>", "sku:<sku>", "plu:<plu>",
\* "generated:<canonical id>:<time>", or None
SourceId(kind, text, num, time) ==
    [kind |-> kind, text |-> text, num |-> num, time |-> time]
NoSourceId == SourceId("None", "", 0, 0)

\* map_receiver_row_to_raw_product
map_receiver_row_to_raw_product(row) ==
    [parser_name |-> Strip(row.parser_name),
     title |-> IF Truthy(Strip(row.title)) THEN Strip(row.title)
               ELSE Txt("unnamed product", FALSE, TRUE),
     source_id |-> IF row.run_id # None
                   THEN SourceId("receiver", row.run_id, row.id, 0)
                   ELSE NoSourceId,
     plu |-> row.plu,
     sku |-> row.sku,
     image_urls |-> IF row.main_image # None THEN <<row.main_image>> ELSE <<>>,
     categories |-> row.categories,
     observed_at |-> parse_datetime(row.ingested_at),
     payload |-> [receiver_product_id |-> Some(row.id),
                  receiver_ingested_at |-> row.ingested_at]]

\* ORDER BY ingested_at ASC, id ASC
RowLess(r1, r2) ==
    \/ TextLess(r1.ingested_at, r2.ingested_at)
    \/ r1.ingested_at = r2.ingested_at /\ r1.id < r2.id

RECURSIVE OrderBy(_)
OrderBy(rows) ==
    IF rows = {} THEN <<>>
    ELSE LET first == CHOOSE r \in rows : \A o \in rows \ {r} : RowLess(r, o)
         IN <<first>> \o OrderBy(rows \ {first})

\* LIMIT n
LimitOneMore(rows, n) ==
    SubSeq(rows, 1, IF Len(rows) < n + 1 THEN Len(rows) ELSE n + 1)

Limit(rows, n) == SubSeq(rows, 1, IF Len(rows) < n THEN Len(rows) ELSE n)

\* ReceiverRepository.fetch_batch
fetch_batch(rows, limit, parser_name, after_ingested_at, after_product_id) ==
    LET parser_filter == Lower(Strip(parser_name))
        wm == safe_str(after_ingested_at)
        after_id == int_or_0(after_product_id)
        of_parser == IF Truthy(parser_filter)
                     THEN {r \in rows : Lower(r.parser_name) = parser_filter}
                     ELSE rows
        above == IF wm # NoStamp
                 THEN {r \in of_parser :
                          \/ TextLess(wm, r.ingested_at)
                          \/ r.ingested_at = wm /\ r.id > after_id}
                 ELSE of_parser
        selected == Limit(OrderBy(above), Max(1, limit))
        parsed == [i \in 1..Len(selected) |->
                      map_receiver_row_to_raw_product(selected[i])]
    IN SelectSeq(parsed, LAMBDA rec :
                    ~Truthy(parser_filter)
                    \/ Lower(Strip(rec.parser_name)) = parser_filter)

\* the rows receivers are made of: ids are unique (primary key)
RowPool ==
    { ReceiverRow(1, Txt("fixprice", FALSE, FALSE), Stamp(2, "+00:00"), "run-2",
                  "A", None, Txt("milk", FALSE, FALSE), "u1", FALSE),
      ReceiverRow(2, Txt("fixprice", FALSE, FALSE), Stamp(1, "+00:00"), "run-1",
                  "B", None, Txt("milk", FALSE, TRUE), "u1", TRUE),
      ReceiverRow(3, Txt("fixprice", FALSE, TRUE), Stamp(1, "+00:00"), "run-1",
                  "A", "S", Txt("tea", TRUE, FALSE), None, FALSE),
      ReceiverRow(4, Txt("fixprice", FALSE, FALSE), Stamp(2, "Z"), None,
                  None, "S", Txt("", FALSE, FALSE), None, FALSE),
      ReceiverRow(5, Txt("fixprice", FALSE, FALSE), Stamp(1, ""), None,
                  "A", None, Txt("tea", FALSE, FALSE), None, TRUE),
      ReceiverRow(6, Txt("chizhik", FALSE, FALSE), Stamp(1, "+00:00"), "run-1",
                  "A", None, Txt("milk", FALSE, FALSE), "u1", FALSE) }

\* receiver contents: up to three rows of the pool
ReceiverContents ==
    {rows \in SUBSET RowPool : Cardinality(rows) \in {1, 2, 3}}

NoFetch == [limit |-> 0, parser_name |-> Txt("", FALSE, FALSE),
            after_ingested_at |-> NoStamp, after_product_id |-> NoInt,
            result |-> <<>>]

(***************************************************************************)
(* Catalog (adapters/catalog.py).  A table is the set of its rows.         *)
(***************************************************************************)
\* the receiver_geo_* entries of raw_payload; latitude and longitude are in
\* units of 10^-9 degree
GeoPayload(country, region, name, settlement_type, latitude, longitude) ==
    [country |-> country, region |-> region, name |-> name,
     settlement_type |-> settlement_type,
     latitude |-> latitude, longitude |-> longitude]

\* a payload without receiver_geo_* entries
NoGeo == GeoPayload(NoText, NoText, NoText, NoText, NoInt, NoInt)

\* NormalizedProductRecord: the fields the catalog's keys are made of, with
\* brand (a back-fill field) and available_count (not one) left missing, no
\* geo entries in the payload and no geo_raw (geo_raw is the sequence of its
\* segments between commas)
NormalizedProductRecord(parser, name, source, plu, sku, images, cats, at, rid) ==
    [parser_name |-> parser, title_normalized |-> name,
     title_normalized_no_stopwords |-> "", source_id |-> source,
     plu |-> plu, sku |-> sku, image_urls |-> images, categories |-> cats,
     observed_at |-> at, receiver_product_id |-> rid,
     canonical_product_id |-> NoInt, brand |-> None, available_count |-> NoInt,
     duplicate_image_urls |-> <<>>, geo |-> NoGeo, geo_raw |-> <<>>]

\* a record with its brand and available_count given
Described(rec, brand, available_count) ==
    [rec EXCEPT !.brand = brand, !.available_count = available_count]

\* _is_missing, of a str | None and of a float | None
is_missing(value) == value = None \/ value = ""

is_missing_number(value) == value = NoInt

\* a plain string as the value of an identity
Str(s) == SourceId("", s, 0, 0)

EmptyCatalog ==
    [identity_map |-> {}, image_fingerprints |-> {}, product_snapshots |-> {},
     product_sources |-> {}, products |-> {}, sync_state |-> {},
     settlements |-> {}, settlement_geodata |-> {}]

\* session.new: the rows added and not flushed yet, in the order added
NoPending == [image_fingerprints |-> <<>>, product_sources |-> <<>>,
              products |-> <<>>, settlement_geodata |-> <<>>]

\* no session: db is what the session's queries see (committed and flushed
\* rows, and the pending identity rows, which _get_identity_map_row finds)
\* error is the exception that ended the call, if one did
NoSession == [status |-> "idle", records |-> <<>>, pos |-> 1,
              db |-> EmptyCatalog, new |-> NoPending, error |-> "none"]

\* NormalizedProductRecord.identity_candidates
identity_candidates(rec) ==
    SelectSeq(<< <<"plu", Str(rec.plu)>>, <<"sku", Str(rec.sku)>>,
                 <<"source_id", rec.source_id>> >>,
              LAMBDA c : c[2] # Str(None) /\ c[2] # NoSourceId)

\* CatalogRepository._fallback_identity_value
fallback_identity_value(rec) ==
    IF rec.title_normalized_no_stopwords # ""
    THEN rec.title_normalized_no_stopwords
    ELSE IF rec.title_normalized # "" THEN rec.title_normalized ELSE None

\* CatalogRepository._get_identity_map_row: the row, or none
get_identity_map_row(db, parser_name, identity_type, identity_value) ==
    {r \in db.identity_map :
        /\ r.parser_name = parser_name
        /\ r.identity_type = identity_type
        /\ r.identity_value = identity_value}

\* a resolution that adds the rows that are missing and leaves the rows
\* that exist as they are
ResolveKeepsExistingRows(db, u, rec) ==
    LET parser_name == Lower(Strip(rec.parser_name))
        identity_keys == identity_candidates(rec)
        row_of(i) == get_identity_map_row(db, parser_name, identity_keys[i][1],
                                          identity_keys[i][2])
        hits == {i \in 1..Len(identity_keys) : row_of(i) # {}}
        fallback_identity == fallback_identity_value(rec)
        found == IF hits # {}
                 THEN row_of(CHOOSE i \in hits : \A j \in hits : i <= j)
                 ELSE IF fallback_identity # None
                 THEN get_identity_map_row(db, parser_name, "normalized_name",
                                           Str(fallback_identity))
                 ELSE {}
        chosen_id == IF found # {}
                     THEN (CHOOSE r \in found : TRUE).canonical_product_id
                     ELSE u + 1
        identity_values ==
            {identity_keys[i] : i \in 1..Len(identity_keys)}
            \cup (IF fallback_identity # None
                  THEN {<<"normalized_name", Str(fallback_identity)>>} ELSE {})
        written == {[parser_name |-> parser_name, identity_type |-> k[1],
                     identity_value |-> k[2], canonical_product_id |-> chosen_id] :
                    k \in {v \in identity_values :
                              get_identity_map_row(db, parser_name, v[1], v[2]) = {}}}
    IN [db |-> [db EXCEPT !.identity_map = @ \cup written],
        uuid |-> IF found # {} THEN u ELSE u + 1,
        chosen_id |-> chosen_id]

\* CatalogRepository._resolve_canonical_product_id
resolve_canonical_product_id(db, u, rec) ==
    LET parser_name == Lower(Strip(rec.parser_name))
        identity_keys == identity_candidates(rec)
        row_of(i) == get_identity_map_row(db, parser_name, identity_keys[i][1],
                                          identity_keys[i][2])
        hits == {i \in 1..Len(identity_keys) : row_of(i) # {}}
        fallback_identity == fallback_identity_value(rec)
        found == IF hits # {}
                 THEN row_of(CHOOSE i \in hits : \A j \in hits : i <= j)
                 ELSE IF fallback_identity # None
                 THEN get_identity_map_row(db, parser_name, "normalized_name",
                                           Str(fallback_identity))
                 ELSE {}
        chosen_id == IF found # {}
                     THEN (CHOOSE r \in found : TRUE).canonical_product_id
                     ELSE u + 1
        identity_values ==
            {identity_keys[i] : i \in 1..Len(identity_keys)}
            \cup (IF fallback_identity # None
                  THEN {<<"normalized_name", Str(fallback_identity)>>} ELSE {})
        written == {[parser_name |-> parser_name, identity_type |-> k[1],
                     identity_value |-> k[2], canonical_product_id |-> chosen_id] :
                    k \in identity_values}
        kept == {r \in db.identity_map :
                    \/ r.parser_name # parser_name
                    \/ <<r.identity_type, r.identity_value>> \notin identity_values}
    IN [db |-> [db EXCEPT !.identity_map = kept \cup written],
        uuid |-> IF found # {} THEN u ELSE u + 1,
        chosen_id |-> chosen_id]

\* record.image_urls after _apply_persistent_image_dedup: the URLs without
\* their repeats within the record (the canonical URL of a fingerprint is
\* the URL itself)
unique_urls(image_urls) ==
    LET keep == {i \in 1..Len(image_urls) :
                    \A j \in 1..(i - 1) : image_urls[j] # image_urls[i]}
    IN [k \in 1..Cardinality(keep) |->
           image_urls[CHOOSE i \in keep :
                         Cardinality({j \in keep : j < i}) = k - 1]]

\* record.duplicate_image_urls after _apply_persistent_image_dedup, from the
\* i-th URL on: a URL whose fingerprint is stored with another canonical URL,
\* and every repeat of a URL within the record
RECURSIVE duplicate_urls(_, _, _)
duplicate_urls(db, image_urls, i) ==
    IF i > Len(image_urls) THEN <<>>
    ELSE (IF \E f \in db.image_fingerprints :
                /\ f.fingerprint = image_urls[i]
                /\ f.canonical_url # image_urls[i]
          THEN <<image_urls[i]>> ELSE <<>>)
         \o (IF \E j \in 1..(i - 1) : image_urls[j] = image_urls[i]
             THEN <<image_urls[i]>> ELSE <<>>)
         \o duplicate_urls(db, image_urls, i + 1)

\* CatalogRepository._apply_persistent_image_dedup, from the i-th URL on: the
\* fingerprint of a URL is its SHA-256, taken as the URL itself; session.get
\* does not see a pending row
RECURSIVE apply_persistent_image_dedup(_, _, _)
apply_persistent_image_dedup(s, image_urls, i) ==
    IF i > Len(image_urls) THEN s
    ELSE LET url == image_urls[i]
             row == {f \in s.db.image_fingerprints : f.fingerprint = url}
         IN apply_persistent_image_dedup(
                IF row = {}
                THEN [s EXCEPT !.new.image_fingerprints =
                        Append(@, [fingerprint |-> url, canonical_url |-> url])]
                ELSE s,
                image_urls, i + 1)

\* |observed - target_time|
Delta(a, b) == IF a > b THEN a - b ELSE b - a

\* the first non-missing value of the history
ClosestIsFirst(history, target_time) ==
    LET present == {h \in history : ~is_missing(h.brand)}
    IN IF present = {} THEN None
       ELSE (CHOOSE h \in present : \A o \in present : h.id <= o.id).brand

\* CatalogRepository._closest_non_missing over the brand: the loop keeps the
\* first item, in the order of the select (by id), whose distance to
\* target_time is the least among the items with a brand; None without one
closest_non_missing(history, target_time) ==
    LET present == {h \in history : ~is_missing(h.brand)}
    IN IF present = {} THEN None
       ELSE (CHOOSE h \in present : \A o \in present :
                \/ Delta(h.observed_at, target_time)
                      < Delta(o.observed_at, target_time)
                \/ /\ Delta(h.observed_at, target_time)
                         = Delta(o.observed_at, target_time)
                   /\ h.id <= o.id).brand

\* the history _apply_backfill reads: the snapshots of the canonical id, or
\* else the catalog_products rows of it
backfill_history(db, canonical_product_id) ==
    LET snapshots == {h \in db.product_snapshots :
                         h.canonical_product_id = canonical_product_id}
        products == {h \in db.products :
                        h.canonical_product_id = canonical_product_id}
    IN IF snapshots # {} THEN snapshots ELSE products

\* CatalogRepository._apply_backfill, for the back-fill field brand
apply_backfill(db, rec) ==
    LET history == backfill_history(db, rec.canonical_product_id[1])
        replacement == closest_non_missing(history, rec.observed_at)
    IN IF history = {} \/ ~is_missing(rec.brand) \/ replacement = None
       THEN rec
       ELSE [rec EXCEPT !.brand = replacement]

\* CatalogRepository._source_id
source_id_of(rec) ==
    IF rec.source_id # NoSourceId THEN rec.source_id
    ELSE IF rec.sku # None THEN SourceId("sku", rec.sku, 0, 0)
    ELSE IF rec.plu # None THEN SourceId("plu", rec.plu, 0, 0)
    ELSE SourceId("generated", "", int_or_0(rec.canonical_product_id),
                  rec.observed_at)

\* a snapshot insert that replaces the earlier snapshots of the source
InsertSnapshotReplacing(s, rec) ==
    [s EXCEPT !.db.product_snapshots =
        {r \in @ : r.parser_name # rec.parser_name
                   \/ r.source_id # source_id_of(rec)}
        \cup {[id |-> Cardinality(@) + 1,
               canonical_product_id |-> rec.canonical_product_id[1],
               parser_name |-> rec.parser_name,
               source_id |-> source_id_of(rec),
               brand |-> rec.brand,
               observed_at |-> rec.observed_at]}]

\* CatalogRepository._normalize_text: _safe_str, then lower() (the folding
\* of inner whitespace and of one letter is not in what a Txt tells apart)
normalize_text(value) ==
    IF safe_text(value) = NoText THEN NoText ELSE Lower(safe_text(value))

\* CatalogRepository._extract_geo_components: the components, or none.  The
\* segments of geo_raw that are not blank, stripped, stand in for country,
\* region and name when the payload has no name (a geo_raw that is None or
\* empty has no such segment)
extract_geo_components(rec) ==
    LET country == safe_text(rec.geo.country)
        region == safe_text(rec.geo.region)
        name == safe_text(rec.geo.name)
        kept == SelectSeq(rec.geo_raw, LAMBDA segment : Strip(segment).base # "")
        parts == IF name = NoText
                 THEN [i \in 1..Len(kept) |-> Strip(kept[i])] ELSE <<>>
        country_raw == IF Len(parts) >= 1 /\ country = NoText
                       THEN parts[1] ELSE country
        region_raw == IF Len(parts) >= 2 /\ region = NoText
                      THEN parts[2] ELSE region
        name_raw == IF Len(parts) >= 3 /\ name = NoText THEN parts[3] ELSE name
    IN IF /\ normalize_text(country_raw) = NoText
          /\ normalize_text(region_raw) = NoText
          /\ normalize_text(name_raw) = NoText
       THEN {}
       ELSE {[country_raw |-> country_raw,
              country_normalized |-> normalize_text(country_raw),
              region_raw |-> region_raw,
              region_normalized |-> normalize_text(region_raw),
              name_raw |-> name_raw,
              name_normalized |-> normalize_text(name_raw),
              settlement_type |-> safe_text(rec.geo.settlement_type),
              latitude |-> rec.geo.latitude,
              longitude |-> rec.geo.longitude]}

\* CatalogRepository._geo_key: "country|region|name" with the bars at both
\* ends stripped, as the sequence of the parts between the bars that are
\* left; <<>> for None
geo_key(geo) ==
    LET token(value) == IF safe_text(value) = NoText
                        THEN "" ELSE safe_text(value).base
        joined == <<token(geo.country_normalized), token(geo.region_normalized),
                    token(geo.name_normalized)>>
        filled == {i \in 1..3 : joined[i] # ""}
    IN IF filled = {} THEN <<>>
       ELSE SubSeq(joined, CHOOSE i \in filled : \A j \in filled : i <= j,
                           CHOOSE i \in filled : \A j \in filled : j <= i)

\* CatalogRepository._get_settlement_row: the row, or none (a settlement
\* row is flushed when it is added, so none is ever pending)
get_settlement_row(s, key) == {r \in s.db.settlements : r.geo_key = key}

\* _is_missing of a str | None of the geo components
is_missing_text(value) == value = NoText \/ Strip(value).base = ""

\* CatalogRepository._fill_missing, for a text column and a float column:
\* the value of the column after it
fill_missing(current, value) ==
    IF is_missing_text(value) THEN current
    ELSE IF is_missing_text(current) THEN value ELSE current

fill_missing_float(current, value) ==
    IF is_missing_number(value) THEN current
    ELSE IF is_missing_number(current) THEN value ELSE current

\* a catalog_settlements row made of the components of a record (alias, not
\* modelled, is filled as settlement_type is)
CatalogSettlement(id, key, geo, observed_at) ==
    [id |-> id, geo_key |-> key,
     country_raw |-> geo.country_raw,
     country_normalized |-> geo.country_normalized,
     region_raw |-> geo.region_raw,
     region_normalized |-> geo.region_normalized,
     name_raw |-> geo.name_raw, name_normalized |-> geo.name_normalized,
     settlement_type |-> geo.settlement_type,
     latitude |-> geo.latitude, longitude |-> geo.longitude,
     first_seen_at |-> observed_at, last_seen_at |-> observed_at]

\* _upsert_settlement that takes every component the record has
UpsertSettlementOverwrites(s, rec) ==
    LET components == extract_geo_components(rec)
        geo == CHOOSE g \in components : TRUE
        key == geo_key(geo)
        found == get_settlement_row(s, key)
        row == CHOOSE r \in found : TRUE
        seen == [row EXCEPT
                    !.last_seen_at = Max(@, rec.observed_at),
                    !.country_raw = fill_missing(geo.country_raw, @),
                    !.country_normalized =
                        fill_missing(geo.country_normalized, @),
                    !.region_raw = fill_missing(geo.region_raw, @),
                    !.region_normalized =
                        fill_missing(geo.region_normalized, @),
                    !.name_raw = fill_missing(geo.name_raw, @),
                    !.name_normalized = fill_missing(geo.name_normalized, @),
                    !.settlement_type = fill_missing(geo.settlement_type, @),
                    !.latitude = fill_missing_float(geo.latitude, @),
                    !.longitude = fill_missing_float(geo.longitude, @)]
        added == CatalogSettlement(Cardinality(s.db.settlements) + 1, key, geo,
                                   rec.observed_at)
    IN IF components = {} \/ geo_key(geo) = <<>>
       THEN [s |-> s, settlement |-> {}]
       ELSE IF found = {}
       THEN [s |-> [s EXCEPT !.db.settlements = @ \cup {added}],
             settlement |-> {added}]
       ELSE [s |-> [s EXCEPT !.db.settlements = (@ \ {row}) \cup {seen}],
             settlement |-> {seen}]

\* CatalogRepository._upsert_settlement: the session after it and the row,
\* or none; a new row is flushed at once and has its autoincrement id
upsert_settlement(s, rec) ==
    LET components == extract_geo_components(rec)
        geo == CHOOSE g \in components : TRUE
        key == geo_key(geo)
        found == get_settlement_row(s, key)
        row == CHOOSE r \in found : TRUE
        seen == [row EXCEPT
                    !.last_seen_at = Max(@, rec.observed_at),
                    !.country_raw = fill_missing(@, geo.country_raw),
                    !.country_normalized =
                        fill_missing(@, geo.country_normalized),
                    !.region_raw = fill_missing(@, geo.region_raw),
                    !.region_normalized =
                        fill_missing(@, geo.region_normalized),
                    !.name_raw = fill_missing(@, geo.name_raw),
                    !.name_normalized = fill_missing(@, geo.name_normalized),
                    !.settlement_type = fill_missing(@, geo.settlement_type),
                    !.latitude = fill_missing_float(@, geo.latitude),
                    !.longitude = fill_missing_float(@, geo.longitude)]
        added == CatalogSettlement(Cardinality(s.db.settlements) + 1, key, geo,
                                   rec.observed_at)
    IN IF components = {} \/ geo_key(geo) = <<>>
       THEN [s |-> s, settlement |-> {}]
       ELSE IF found = {}
       THEN [s |-> [s EXCEPT !.db.settlements = @ \cup {added}],
             settlement |-> {added}]
       ELSE [s |-> [s EXCEPT !.db.settlements = (@ \ {row}) \cup {seen}],
             settlement |-> {seen}]

\* f"{settlement.id}:{latitude:.8f}:{longitude:.8f}" (the hash of it): a
\* coordinate is rounded to 10^-8 degree
geo_fingerprint(settlement_id, latitude, longitude) ==
    <<settlement_id, (latitude + 5) \div 10, (longitude + 5) \div 10>>

\* CatalogRepository._append_settlement_geodata: the row is added to the
\* session and not flushed
append_settlement_geodata(s, settlement, rec) ==
    IF \/ settlement = {}
       \/ rec.geo.latitude = NoInt
       \/ rec.geo.longitude = NoInt
    THEN s
    ELSE LET settlement_id == (CHOOSE r \in settlement : TRUE).id
             fingerprint == geo_fingerprint(settlement_id, rec.geo.latitude[1],
                                            rec.geo.longitude[1])
         IN IF \/ \E i \in 1..Len(s.new.settlement_geodata) :
                     s.new.settlement_geodata[i].geo_fingerprint = fingerprint
               \/ \E r \in s.db.settlement_geodata :
                     r.geo_fingerprint = fingerprint
            THEN s
            ELSE [s EXCEPT !.new.settlement_geodata =
                    Append(@, [geo_fingerprint |-> fingerprint,
                               settlement_id |-> settlement_id,
                               latitude |-> rec.geo.latitude[1],
                               longitude |-> rec.geo.longitude[1],
                               observed_at |-> rec.observed_at])]

\* CatalogRepository._insert_product_snapshot: add, then flush([snapshot])
insert_product_snapshot(s, rec) ==
    [s EXCEPT !.db.product_snapshots = @ \cup
        {[id |-> Cardinality(@) + 1,
          canonical_product_id |-> rec.canonical_product_id[1],
          parser_name |-> rec.parser_name,
          source_id |-> source_id_of(rec),
          brand |-> rec.brand,
          observed_at |-> rec.observed_at]}]

SourceKey(r) == <<r.parser_name, r.source_id>>

\* does a pending row repeat the primary key of a stored or pending row
\* (pending and stored are the primary keys of the rows)
PrimaryKeyClash(pending, stored) ==
    \E i \in 1..Len(pending) :
        \/ pending[i] \in stored
        \/ \E j \in 1..Len(pending) : j # i /\ pending[j] = pending[i]

FingerprintKey(r) == r.fingerprint

\* session.flush(): insert the pending rows; a repeated primary key raises
\* IntegrityError
flush(s) ==
    IF \/ PrimaryKeyClash([i \in 1..Len(s.new.product_sources) |->
                               SourceKey(s.new.product_sources[i])],
                          {SourceKey(r) : r \in s.db.product_sources})
       \/ PrimaryKeyClash([i \in 1..Len(s.new.image_fingerprints) |->
                               FingerprintKey(s.new.image_fingerprints[i])],
                          {FingerprintKey(r) : r \in s.db.image_fingerprints})
    THEN [s EXCEPT !.status = "failed", !.error = "IntegrityError"]
    ELSE [s EXCEPT
            !.db.product_sources =
                @ \cup {s.new.product_sources[i] :
                           i \in 1..Len(s.new.product_sources)},
            !.db.image_fingerprints =
                @ \cup {s.new.image_fingerprints[i] :
                           i \in 1..Len(s.new.image_fingerprints)},
            !.db.products =
                @ \cup {[s.new.products[i] EXCEPT
                            !.id = Cardinality(s.db.products) + i] :
                           i \in 1..Len(s.new.products)},
            !.db.settlement_geodata =
                @ \cup {s.new.settlement_geodata[i] :
                           i \in 1..Len(s.new.settlement_geodata)},
            !.new = NoPending]

\* CatalogRepository._link_snapshot_categories: session.flush() when the
\* record has categories
link_snapshot_categories(s, rec) == IF rec.categories THEN flush(s) ELSE s

\* the snapshot a round has just inserted: the row with the autoincrement id
\* given last
inserted_snapshot(s) ==
    CHOOSE r \in s.db.product_snapshots :
        \A o \in s.db.product_snapshots : o.id <= r.id

\* _upsert_product_source with last_seen_at = observed_at on a hit
UpsertSourceLastSeen(s, rec, snapshot) ==
    LET parser_name == Lower(Strip(rec.parser_name))
        source_id == source_id_of(rec)
        found == {r \in s.db.product_sources :
                     r.parser_name = parser_name /\ r.source_id = source_id}
    IN IF found = {}
       THEN [s |-> [s EXCEPT !.new.product_sources =
                       Append(@, [parser_name |-> parser_name,
                                  source_id |-> source_id,
                                  canonical_product_id |->
                                      rec.canonical_product_id[1],
                                  latest_snapshot_id |-> snapshot.id,
                                  first_seen_at |-> rec.observed_at,
                                  last_seen_at |-> rec.observed_at])],
             rec |-> rec]
       ELSE LET row == CHOOSE r \in found : TRUE
            IN [s |-> [s EXCEPT !.db.product_sources = (@ \ {row}) \cup
                         {[row EXCEPT
                             !.latest_snapshot_id = snapshot.id,
                             !.last_seen_at = rec.observed_at]}],
                rec |-> [rec EXCEPT !.canonical_product_id =
                           Some(row.canonical_product_id)]]

\* CatalogRepository._upsert_product_source: the session and the record
\* after it; session.get sees a stored or flushed row, not a pending one; a
\* row always holds a canonical id (the column is written on every insert)
upsert_product_source(s, rec, snapshot) ==
    LET parser_name == Lower(Strip(rec.parser_name))
        source_id == source_id_of(rec)
        found == {r \in s.db.product_sources :
                     r.parser_name = parser_name /\ r.source_id = source_id}
    IN IF found = {}
       THEN [s |-> [s EXCEPT !.new.product_sources =
                       Append(@, [parser_name |-> parser_name,
                                  source_id |-> source_id,
                                  canonical_product_id |->
                                      rec.canonical_product_id[1],
                                  latest_snapshot_id |-> snapshot.id,
                                  first_seen_at |-> rec.observed_at,
                                  last_seen_at |-> rec.observed_at])],
             rec |-> rec]
       ELSE LET row == CHOOSE r \in found : TRUE
            IN [s |-> [s EXCEPT !.db.product_sources = (@ \ {row}) \cup
                         {[row EXCEPT
                             !.latest_snapshot_id = snapshot.id,
                             !.last_seen_at = Max(@, rec.observed_at)]}],
                rec |-> [rec EXCEPT !.canonical_product_id =
                           Some(row.canonical_product_id)]]

\* a catalog_products row made of a record
CatalogProduct(rec) ==
    [id |-> 0, parser_name |-> rec.parser_name, source_id |-> source_id_of(rec),
     canonical_product_id |-> rec.canonical_product_id[1],
     plu |-> rec.plu, sku |-> rec.sku, brand |-> rec.brand,
     available_count |-> rec.available_count, image_urls |-> rec.image_urls,
     primary_category |-> rec.categories, observed_at |-> rec.observed_at]

\* the non-destructive merge of _upsert_product_row into an existing row
merge_product_row(existing, rec) ==
    [existing EXCEPT
        !.plu = IF is_missing(rec.plu) THEN @ ELSE rec.plu,
        !.sku = IF is_missing(rec.sku) THEN @ ELSE rec.sku,
        !.brand = IF is_missing(rec.brand) THEN @ ELSE rec.brand,
        !.available_count =
            IF is_missing_number(rec.available_count) THEN @
            ELSE rec.available_count,
        !.primary_category = IF rec.categories THEN TRUE ELSE @,
        !.image_urls = IF rec.image_urls # <<>> THEN rec.image_urls ELSE @,
        !.observed_at = Max(@, rec.observed_at)]

\* CatalogRepository._upsert_product_row: session.scalar gives the first row
\* of the select, which does not see a pending row
upsert_product_row(s, rec) ==
    LET source_id == source_id_of(rec)
        found == {r \in s.db.products :
                     r.parser_name = rec.parser_name /\ r.source_id = source_id}
    IN IF found = {}
       THEN [s EXCEPT !.new.products = Append(@, CatalogProduct(rec))]
       ELSE LET existing == CHOOSE r \in found : \A o \in found : r.id <= o.id
            IN [s EXCEPT !.db.products =
                   (@ \ {existing}) \cup {merge_product_row(existing, rec)}]

\* the body of the loop of upsert_many for the record at s.pos, in the
\* order of the code; each part is handed the values of the parts before it
\* _upsert_product_source and _upsert_product_row, unless the flush of
\* _link_snapshot_categories raised
upsert_stored(s, pos, u, rec) ==
    IF s.status = "failed"
    THEN [session |-> [s EXCEPT !.records[pos] = rec], uuid |-> u]
    ELSE CHOOSE out \in
            {[session |-> [upsert_product_row(r.s, r.rec) EXCEPT
                              !.records[pos] = r.rec, !.pos = pos + 1],
              uuid |-> u] :
             r \in {upsert_product_source(s, rec, inserted_snapshot(s))}} : TRUE

\* _upsert_settlement, _insert_product_snapshot, _append_settlement_geodata
\* and _link_snapshot_categories
upsert_filled(s, pos, u, rec) ==
    CHOOSE out \in
        {upsert_stored(link_snapshot_categories(
                          append_settlement_geodata(
                              insert_product_snapshot(r.s, rec),
                              r.settlement, rec), rec),
                       pos, u, rec) : r \in {upsert_settlement(s, rec)}} : TRUE

\* _apply_backfill
upsert_deduped(s, pos, u, rec) ==
    CHOOSE out \in
        {upsert_filled(s, pos, u, filled) :
         filled \in {apply_backfill(s.db, rec)}} : TRUE

\* record.canonical_product_id = ..., then _apply_persistent_image_dedup
upsert_resolved(s, pos, r) ==
    CHOOSE out \in
        {upsert_deduped(apply_persistent_image_dedup([s EXCEPT !.db = r.db],
                                                     rec.image_urls, 1),
                        pos, r.uuid,
                        [rec EXCEPT
                           !.image_urls = unique_urls(rec.image_urls),
                           !.duplicate_image_urls =
                               duplicate_urls(r.db, rec.image_urls, 1)]) :
         rec \in {[s.records[pos] EXCEPT
                     !.canonical_product_id = Some(r.chosen_id)]}} : TRUE

upsert_one(s, u) ==
    CHOOSE out \in
        {upsert_resolved(s, s.pos, r) :
         r \in {resolve_canonical_product_id(s.db, u, s.records[s.pos])}} : TRUE

\* closing the session after an exception rolls the transaction back
rollback(s, cat) ==
    [s EXCEPT !.status = "failed", !.db = cat, !.new = NoPending]

\* what the records of a call carry after it
Carried(records) ==
    {[parser_name |-> Lower(Strip(records[i].parser_name)),
      plu |-> records[i].plu,
      canonical_product_id |-> records[i].canonical_product_id[1]] :
     i \in {j \in 1..Len(records) : records[j].plu # None}}

\* upsert_many(records): open the session
UpsertBegin(records) ==
    /\ session.status # "open"
    /\ records # <<>>
    /\ submitted + Len(records) <= MaxRecords
    /\ submitted' = submitted + Len(records)
    /\ session' = [status |-> "open", records |-> records, pos |-> 1,
                   db |-> catalog, new |-> NoPending, error |-> "none"]
    /\ UNCHANGED <<catalog, uuid, carried>>

upsert_many(records) ==
    /\ UpsertBegin(records)
    /\ UNCHANGED <<daemonVars, storageVars, callVars, receiverVars, syncVars>>

\* one round of the loop, with every flush written through to the database
UpsertRecordAutocommit ==
    /\ session.status = "open"
    /\ session.pos <= Len(session.records)
    /\ LET r == upsert_one(session, uuid)
       IN /\ uuid' = r.uuid
          /\ session' = IF r.session.status = "failed"
                        THEN rollback(r.session, r.session.db) ELSE r.session
          /\ catalog' = r.session.db
    /\ UNCHANGED <<submitted, carried, daemonVars, storageVars, callVars, receiverVars, syncVars>>

\* one round of the loop of upsert_many
upsert_record ==
    /\ session.status = "open"
    /\ session.pos <= Len(session.records)
    /\ LET r == upsert_one(session, uuid)
       IN /\ uuid' = r.uuid
          /\ session' = IF r.session.status = "failed"
                        THEN rollback(r.session, catalog) ELSE r.session
    /\ UNCHANGED <<catalog, submitted, carried, daemonVars, storageVars, callVars, receiverVars,
                   syncVars>>

\* session.commit(): flush, then commit
upsert_commit ==
    /\ session.status = "open"
    /\ session.pos > Len(session.records)
    /\ IF flush(session).status = "failed"
       THEN /\ session' = rollback(flush(session), catalog)
            /\ UNCHANGED <<catalog, carried>>
       ELSE /\ session' = [flush(session) EXCEPT !.status = "committed"]
            /\ catalog' = flush(session).db
            /\ carried' = carried \cup Carried(session.records)
    /\ UNCHANGED <<uuid, submitted, daemonVars, storageVars, callVars, receiverVars, syncVars>>

\* a statement of the transaction raises (the database is locked, full, gone)
upsert_raise ==
    /\ session.status = "open"
    /\ session' = rollback([session EXCEPT !.error = "OperationalError"], catalog)
    /\ UNCHANGED <<catalog, uuid, submitted, carried, daemonVars, storageVars, callVars, receiverVars,
                   syncVars>>

(***************************************************************************)
(* MySQL catalog writer (adapters/catalog_mysql.py).  It writes the        *)
(* identity map, the image fingerprints and catalog_products through one   *)
(* connection, whose statements see the rows written before them; session  *)
(* stands for that connection and its open transaction.                    *)
(***************************************************************************)
\* CatalogMySQLRepository._apply_persistent_image_dedup on the table
mysql_apply_persistent_image_dedup(cat, image_urls) ==
    [cat EXCEPT !.image_fingerprints =
        @ \cup {[fingerprint |-> image_urls[i], canonical_url |-> image_urls[i]] :
                  i \in {j \in 1..Len(image_urls) :
                           \A f \in cat.image_fingerprints :
                              f.fingerprint # image_urls[j]}}]

\* CatalogMySQLRepository._apply_backfill with _lookup_backfill_value, for
\* the brand: the catalog_products row of the canonical id nearest in time
mysql_apply_backfill(cat, rec) ==
    LET history == {h \in cat.products :
                       h.canonical_product_id = rec.canonical_product_id[1]}
        replacement == closest_non_missing(history, rec.observed_at)
    IN IF ~is_missing(rec.brand) \/ replacement = None
       THEN rec
       ELSE [rec EXCEPT !.brand = replacement]

\* CatalogMySQLRepository._upsert_product_row: INSERT ... ON DUPLICATE KEY
\* UPDATE of every column but created_at, parser_name and source_id; the
\* table has no primary category column
mysql_upsert_product_row(cat, rec) ==
    LET found == {r \in cat.products :
                     /\ r.parser_name = rec.parser_name
                     /\ r.source_id = source_id_of(rec)}
        values == [CatalogProduct(rec) EXCEPT !.primary_category = FALSE]
    IN IF found = {}
       THEN [cat EXCEPT !.products =
                @ \cup {[values EXCEPT !.id = Cardinality(cat.products) + 1]}]
       ELSE [cat EXCEPT !.products =
                (@ \ found) \cup {[values EXCEPT !.id = r.id] : r \in found}]

\* _apply_backfill and _upsert_product_row for a record whose id is resolved
mysql_upsert_resolved(s, pos, r) ==
    CHOOSE out \in
        {[session |->
             [s EXCEPT
                !.db = mysql_upsert_product_row(
                          mysql_apply_persistent_image_dedup(r.db, rec.image_urls),
                          rec),
                !.records[pos] = rec, !.pos = pos + 1],
          uuid |-> r.uuid] :
         rec \in {mysql_apply_backfill(
                     mysql_apply_persistent_image_dedup(r.db,
                                                        s.records[pos].image_urls),
                     [s.records[pos] EXCEPT
                        !.canonical_product_id = Some(r.chosen_id),
                        !.image_urls = unique_urls(@),
                        !.duplicate_image_urls =
                            duplicate_urls(r.db, s.records[pos].image_urls, 1)])}}
        : TRUE

\* the body of the loop of CatalogMySQLRepository.upsert_many
mysql_upsert_one(s, u) ==
    CHOOSE out \in
        {mysql_upsert_resolved(s, s.pos, r) :
         r \in {resolve_canonical_product_id(s.db, u, s.records[s.pos])}} : TRUE

\* CatalogMySQLRepository.upsert_many(records): connect
mysql_upsert_many(records) ==
    /\ UpsertBegin(records)
    /\ UNCHANGED <<daemonVars, storageVars, callVars, receiverVars, syncVars>>

\* one round of the loop
mysql_upsert_record ==
    /\ session.status = "open"
    /\ session.pos <= Len(session.records)
    /\ LET r == mysql_upsert_one(session, uuid)
       IN /\ uuid' = r.uuid
          /\ session' = r.session
    /\ UNCHANGED <<catalog, submitted, carried, daemonVars, storageVars, callVars, receiverVars,
                   syncVars>>

\* conn.commit()
mysql_commit ==
    /\ session.status = "open"
    /\ session.pos > Len(session.records)
    /\ session' = [session EXCEPT !.status = "committed"]
    /\ catalog' = session.db
    /\ UNCHANGED <<uuid, submitted, carried, daemonVars, storageVars, callVars, receiverVars, syncVars>>

\* a statement raises: conn.rollback()
mysql_raise ==
    /\ session.status = "open"
    /\ session' = rollback([session EXCEPT !.error = "OperationalError"], catalog)
    /\ UNCHANGED <<catalog, uuid, submitted, carried, daemonVars, storageVars, callVars, receiverVars,
                   syncVars>>

\* the settlement of the records: one key written in two ways, with and
\* without a settlement type, and coordinates that round to the same and to
\* another fingerprint
MSK == Txt("msk", FALSE, FALSE)

GeoInputs ==
    <<GeoPayload(Txt("ru", FALSE, TRUE), NoText, MSK, NoText, Some(10), Some(20)),
      GeoPayload(Txt("ru", TRUE, FALSE), NoText, MSK, Txt("city", FALSE, FALSE),
                 Some(11), Some(20)),
      GeoPayload(Txt("ru", FALSE, FALSE), NoText, MSK, NoText, Some(30), Some(20)),
      GeoPayload(NoText, NoText, MSK, Txt("town", FALSE, FALSE), Some(10), NoInt)>>

\* the records callers hand to upsert_many
RecordInputs ==
    { [Described(NormalizedProductRecord(FIXPRICE, "milk",
                     SourceId("id", "X", 0, 0), "A", None, <<"u1">>, FALSE, 1,
                     NoInt), "b1", Some(5))
          EXCEPT !.geo = GeoInputs[1]],
      [NormalizedProductRecord(FIXPRICE, "tea", SourceId("id", "Y", 0, 0),
                               "B", None, <<"u1">>, TRUE, 1, NoInt)
          EXCEPT !.geo = GeoInputs[3]],
      [Described(NormalizedProductRecord(FIXPRICE, "", SourceId("id", "Y", 0, 0),
                     "A", None, <<>>, FALSE, 2, NoInt), "b2", NoInt)
          EXCEPT !.geo = GeoInputs[2]],
      [NormalizedProductRecord(FIXPRICE, "", SourceId("id", "X", 0, 0),
                               None, None, <<>>, FALSE, 2, NoInt)
          EXCEPT !.geo_raw = <<Txt("ru", FALSE, FALSE), Txt("", TRUE, FALSE),
                               Txt("msk", TRUE, FALSE)>>],
      [NormalizedProductRecord(Txt("fixprice", TRUE, TRUE), "the milk", NoSourceId,
                               None, "S", <<>>, FALSE, 2, NoInt)
          EXCEPT !.title_normalized_no_stopwords = "milk"],
      NormalizedProductRecord(FIXPRICE, "", NoSourceId,
                              "A", "S", <<>>, TRUE, 1, NoInt),
      [NormalizedProductRecord(Txt("chizhik", FALSE, FALSE), "", NoSourceId,
                               None, None, <<"u1", "u1">>, FALSE, 1, NoInt)
          EXCEPT !.geo = GeoInputs[4]],
      NormalizedProductRecord(Txt("chizhik", FALSE, FALSE), "milk", NoSourceId,
                              None, None, <<>>, FALSE, 1, NoInt) }

\* the lists of records of one call: one record, or two
BatchInputs ==
    {<<r>> : r \in RecordInputs} \cup {<<r1, r2>> : r1, r2 \in RecordInputs}

(***************************************************************************)
(* Cursor row of the catalog (catalog.py:335-384).                         *)
(***************************************************************************)
\* CatalogRepository._cursor_key: "receiver_cursor:<parser>"
cursor_key(parser_name) == Lower(Strip(parser_name))

Cursor(at, id) == [ingested_at |-> at, product_id |-> id]

\* the value of a converter_sync_state row, by the JSON text of its column:
\*   "object"         a JSON object, with the two fields it has
\*   "array"          valid JSON that is neither an object nor a string
\*   "string_object"  a JSON string whose text is a JSON object (the fields
\*                    are those of that object)
\*   "string_scalar"  a JSON string whose text is JSON, but not an object
\*   "string_text"    a JSON string whose text is not JSON
\*   "text"           not JSON
\* a field that is absent, null or not a number of digits is NoStamp / NoInt
StateValue(kind, at, id) == [kind |-> kind, ingested_at |-> at, product_id |-> id]

\* session.get(_ConverterSyncState, key): the rows with the key of the parser
cursor_row(cat, parser_name) ==
    {r \in cat.sync_state : r.key = cursor_key(parser_name)}

\* CatalogRepository.get_receiver_cursor: the exception it raises, if any.
\* The JSON column type decodes the text when the row is loaded; a str is
\* decoded again by json.loads, and parsed.get is called on what comes out
get_receiver_cursor_error(cat, parser_name) ==
    LET row == cursor_row(cat, parser_name)
    IN IF row = {} THEN "none"
       ELSE CASE (CHOOSE r \in row : TRUE).value.kind = "text" -> "JSONDecodeError"
              [] (CHOOSE r \in row : TRUE).value.kind = "string_scalar"
                    -> "AttributeError"
              [] OTHER -> "none"

\* CatalogRepository.get_receiver_cursor: the pair it returns
get_receiver_cursor(cat, parser_name) ==
    LET row == cursor_row(cat, parser_name)
    IN IF row = {} THEN Cursor(NoStamp, NoInt)
       ELSE IF (CHOOSE r \in row : TRUE).value.kind \in {"object", "string_object"}
       THEN Cursor(safe_str((CHOOSE r \in row : TRUE).value.ingested_at),
                   (CHOOSE r \in row : TRUE).value.product_id)
       ELSE Cursor(NoStamp, NoInt)

\* a set that adds its row and leaves the row of the parser in place
SetReceiverCursorAdds(cat, parser_name, ingested_at, product_id) ==
    [cat EXCEPT !.sync_state =
        @ \cup {[key |-> cursor_key(parser_name),
                 value |-> StateValue("object", ingested_at, Some(product_id))]}]

\* CatalogRepository.set_receiver_cursor: the catalog after its commit
set_receiver_cursor(cat, parser_name, ingested_at, product_id) ==
    [cat EXCEPT !.sync_state =
        {r \in @ : r.key # cursor_key(parser_name)}
        \cup {[key |-> cursor_key(parser_name),
               value |-> StateValue("object", ingested_at, Some(product_id))]}]

\* CatalogMySQLRepository.get_receiver_cursor: json.loads of the column text
\* with no handler, then the isinstance(parsed, dict) test
mysql_get_receiver_cursor_error(cat, parser_name) ==
    LET row == cursor_row(cat, parser_name)
    IN IF row # {} /\ (CHOOSE r \in row : TRUE).value.kind = "text"
       THEN "JSONDecodeError" ELSE "none"

mysql_get_receiver_cursor(cat, parser_name) ==
    LET row == cursor_row(cat, parser_name)
    IN IF row # {} /\ (CHOOSE r \in row : TRUE).value.kind = "object"
       THEN Cursor(safe_str((CHOOSE r \in row : TRUE).value.ingested_at),
                   (CHOOSE r \in row : TRUE).value.product_id)
       ELSE Cursor(NoStamp, NoInt)

\* CatalogMySQLRepository.set_receiver_cursor: INSERT ... ON DUPLICATE KEY
\* UPDATE of the JSON object
mysql_set_receiver_cursor(cat, parser_name, ingested_at, product_id) ==
    [cat EXCEPT !.sync_state =
        {r \in @ : r.key # cursor_key(parser_name)}
        \cup {[key |-> cursor_key(parser_name),
               value |-> StateValue("object", ingested_at, Some(product_id))]}]

\* a call of the cursor API: its arguments, the pair returned and the
\* exception raised; row_found tells whether set found a row to rewrite
CursorCall(op, parser_name, ingested_at, product_id, result, error, row_found) ==
    [op |-> op, parser_name |-> parser_name, ingested_at |-> ingested_at,
     product_id |-> product_id, result |-> result, error |-> error,
     row_found |-> row_found]

cursor_get(parser_name) ==
    /\ called' = CursorCall("get", parser_name, NoStamp, NoInt,
                            get_receiver_cursor(catalog, parser_name),
                            get_receiver_cursor_error(catalog, parser_name),
                            cursor_row(catalog, parser_name) # {})
    /\ UNCHANGED <<daemonVars, receiverVars, syncVars, catalogVars, storageVars>>

cursor_set(parser_name, ingested_at, product_id) ==
    /\ catalog' = set_receiver_cursor(catalog, parser_name, ingested_at,
                                      product_id)
    /\ called' = CursorCall("set", parser_name, ingested_at, Some(product_id),
                            Cursor(NoStamp, NoInt), "none",
                            cursor_row(catalog, parser_name) # {})
    /\ UNCHANGED <<session, uuid, submitted, carried, daemonVars, receiverVars,
                   syncVars, storageVars>>

mysql_cursor_get(parser_name) ==
    /\ called' = CursorCall("mysql_get", parser_name, NoStamp, NoInt,
                            mysql_get_receiver_cursor(catalog, parser_name),
                            mysql_get_receiver_cursor_error(catalog, parser_name),
                            cursor_row(catalog, parser_name) # {})
    /\ UNCHANGED <<daemonVars, receiverVars, syncVars, catalogVars, storageVars>>

mysql_cursor_set(parser_name, ingested_at, product_id) ==
    /\ catalog' = mysql_set_receiver_cursor(catalog, parser_name, ingested_at,
                                            product_id)
    /\ called' = CursorCall("mysql_set", parser_name, ingested_at,
                            Some(product_id), Cursor(NoStamp, NoInt), "none",
                            cursor_row(catalog, parser_name) # {})
    /\ UNCHANGED <<session, uuid, submitted, carried, daemonVars, receiverVars,
                   syncVars, storageVars>>

\* the arguments of the cursor calls
CursorParsers == {Txt("fixprice", FALSE, FALSE), Txt("fixprice", TRUE, TRUE),
                  Txt("chizhik", FALSE, FALSE)}
CursorStamps == {EmptyStamp, Stamp(1, "+00:00"), Stamp(2, "Z")}
CursorIds == {0, 7}

\* the values a converter_sync_state row is found with
StoredValues ==
    { StateValue("object", Stamp(1, "+00:00"), Some(7)),
      StateValue("object", NoStamp, NoInt),
      StateValue("string_object", Stamp(1, "+00:00"), Some(7)),
      StateValue("array", NoStamp, NoInt),
      StateValue("string_scalar", NoStamp, NoInt),
      StateValue("string_text", NoStamp, NoInt),
      StateValue("text", NoStamp, NoInt) }

\* converter_sync_state as the repository finds it: empty, or with a row of
\* the parser fixprice
CursorTables ==
    {{}} \cup {{[key |-> cursor_key(FIXPRICE), value |-> v]} : v \in StoredValues}

(***************************************************************************)
(* Sync engine (sync.py).                                                  *)
(***************************************************************************)
SyncJob(p, bs, mb) == [parser_name |-> p, batch_size |-> bs, max_batches |-> mb]

NoSyncJob == SyncJob(Txt("", FALSE, FALSE), 0, 0)

\* the jobs run
SyncJobs ==
    { SyncJob(Txt("fixprice", FALSE, FALSE), 1, 0),
      SyncJob(Txt("fixprice", FALSE, FALSE), 2, 0),
      SyncJob(Txt("fixprice", TRUE, TRUE), 0, 1),
      SyncJob(Txt("", TRUE, FALSE), 250, 0),
      SyncJob(Txt("chizhik", FALSE, FALSE), 2, 2) }

\* run: parser_name = job.parser_name.strip() or "fixprice"
parser_name_of(j) ==
    IF Truthy(Strip(j.parser_name)) THEN Strip(j.parser_name) ELSE FIXPRICE

\* the (ingested_at, product_id) _cursor_from_records reads from a record
record_key(rec) ==
    Cursor(isoformat(rec.observed_at), int_or_0(rec.payload.receiver_product_id))

\* the comparison of _cursor_from_records
CursorLess(a, b) ==
    \/ TextLess(a.ingested_at, b.ingested_at)
    \/ a.ingested_at = b.ingested_at /\ a.product_id < b.product_id

\* the loop of _cursor_from_records from the i-th record on
RECURSIVE cursor_loop(_, _, _)
cursor_loop(records, i, best) ==
    IF i > Len(records) THEN best
    ELSE cursor_loop(records, i + 1,
                     IF best.ingested_at = EmptyStamp
                        \/ CursorLess(best, record_key(records[i]))
                     THEN record_key(records[i]) ELSE best)

\* the key of the last record
CursorFromLastRecord(records) == record_key(records[Len(records)])

\* _cursor_from_records, for a list that is not empty
cursor_from_records(records) == cursor_loop(records, 1, Cursor(EmptyStamp, -1))

\* HandlerRegistry.get(item.parser_name).handle(item): the handler's own
\* parser_name is the registry key; the normalized title is the title
\* stripped and lower-cased
handle(raw) ==
    NormalizedProductRecord(Lower(Strip(raw.parser_name)),
                            Lower(Strip(raw.title)).base, raw.source_id,
                            raw.plu, raw.sku, raw.image_urls, raw.categories,
                            raw.observed_at, raw.payload.receiver_product_id)

SyncIdle ==
    /\ sync_job = NoSyncJob
    /\ spc = "idle"
    /\ watermark = Cursor(NoStamp, NoInt)
    /\ raw_records = <<>>
    /\ batches = 0
    /\ run_total = 0
    /\ events = <<>>
    /\ execution = "none"

CatalogInit ==
    /\ catalog = EmptyCatalog
    /\ session = NoSession
    /\ uuid = 0
    /\ submitted = 0
    /\ carried = {}

\* SyncBatchEvent, without the cursor it repeats
SyncBatchEvent(batch_number, batch_size, total) ==
    [batch_number |-> batch_number, batch_size |-> batch_size,
     total_processed |-> total]

\* run, up to the loop: read the cursor
sync_run ==
    /\ spc = "idle"
    /\ watermark' = get_receiver_cursor(catalog, parser_name_of(sync_job))
    /\ batches' = 0
    /\ run_total' = 0
    /\ events' = <<>>
    /\ execution' = "none"
    /\ spc' = "loop"
    /\ UNCHANGED <<sync_job, raw_records, daemonVars, storageVars, callVars, receiverVars, catalogVars>>

\* the fetch_batch call of the loop
FetchOf(j, wm) ==
    [limit |-> Max(1, j.batch_size), parser_name |-> parser_name_of(j),
     after_ingested_at |-> wm.ingested_at, after_product_id |-> wm.product_id,
     result |-> fetch_batch(receiver, Max(1, j.batch_size), parser_name_of(j),
                            wm.ingested_at, wm.product_id)]

\* the head of the loop that also moves the cursor row to the batch fetched
SyncFetchMovesCursor ==
    /\ spc = "loop"
    /\ IF Max(0, sync_job.max_batches) > 0 /\ batches >= Max(0, sync_job.max_batches)
       THEN spc' = "done" /\ UNCHANGED <<raw_records, fetched, catalog>>
       ELSE /\ fetched' = FetchOf(sync_job, watermark)
            /\ raw_records' = fetched'.result
            /\ spc' = IF raw_records' = <<>> THEN "done" ELSE "fetched"
            /\ catalog' =
                 IF raw_records' = <<>> THEN catalog
                 ELSE set_receiver_cursor(catalog, parser_name_of(sync_job),
                         cursor_from_records(raw_records').ingested_at,
                         cursor_from_records(raw_records').product_id)
    /\ UNCHANGED <<sync_job, watermark, batches, run_total, events, execution, receiver,
                   session, uuid, submitted, carried, daemonVars, storageVars, callVars>>

\* the head of the loop without the max_batches test
SyncFetchUnlimited ==
    /\ spc = "loop"
    /\ fetched' = FetchOf(sync_job, watermark)
    /\ raw_records' = fetched'.result
    /\ spc' = IF raw_records' = <<>> THEN "done" ELSE "fetched"
    /\ UNCHANGED <<sync_job, watermark, batches, run_total, events, execution, receiver,
                   daemonVars, storageVars, callVars, catalogVars>>

\* the head of the loop: the max_batches test, fetch_batch, the empty test
sync_fetch ==
    /\ spc = "loop"
    /\ IF Max(0, sync_job.max_batches) > 0 /\ batches >= Max(0, sync_job.max_batches)
       THEN spc' = "done" /\ UNCHANGED <<raw_records, fetched>>
       ELSE /\ fetched' = FetchOf(sync_job, watermark)
            /\ raw_records' = fetched'.result
            /\ spc' = IF raw_records' = <<>> THEN "done" ELSE "fetched"
    /\ UNCHANGED <<sync_job, watermark, batches, run_total, events, execution, receiver,
                   daemonVars, storageVars, callVars, catalogVars>>

\* normalize the batch and call upsert_many
sync_upsert ==
    /\ spc = "fetched"
    /\ UpsertBegin([i \in 1..Len(raw_records) |-> handle(raw_records[i])])
    /\ spc' = "upsert"
    /\ UNCHANGED <<sync_job, watermark, raw_records, batches, run_total, events, execution,
                   daemonVars, storageVars, callVars, receiverVars>>

\* upsert_many returned: compute the watermark, write the cursor row, count
sync_set_cursor ==
    /\ spc = "upsert"
    /\ session.status = "committed"
    /\ watermark' = Cursor(cursor_from_records(raw_records).ingested_at,
                           Some(cursor_from_records(raw_records).product_id))
    /\ catalog' = set_receiver_cursor(catalog, parser_name_of(sync_job),
                                      watermark'.ingested_at,
                                      watermark'.product_id[1])
    /\ batches' = batches + 1
    /\ run_total' = run_total + Len(raw_records)
    /\ events' = Append(events, SyncBatchEvent(batches + 1, Len(raw_records),
                                                run_total + Len(raw_records)))
    /\ spc' = "loop"
    /\ UNCHANGED <<sync_job, raw_records, execution, session, uuid, submitted,
                   carried, daemonVars, storageVars, callVars, receiverVars>>

\* an upsert_many failure after which the cursor of the batch is written
SyncRaiseAfterCursor ==
    /\ spc = "upsert"
    /\ session.status = "failed"
    /\ catalog' = set_receiver_cursor(catalog, parser_name_of(sync_job),
                                      cursor_from_records(raw_records).ingested_at,
                                      cursor_from_records(raw_records).product_id)
    /\ execution' = "failed"
    /\ spc' = "idle"
    /\ UNCHANGED <<sync_job, watermark, raw_records, batches, run_total, events,
                   session, uuid, submitted, carried, daemonVars, storageVars,
                   callVars, receiverVars>>

\* upsert_many raised: run raises, _run_job reports the job as failed
sync_raise ==
    /\ spc = "upsert"
    /\ session.status = "failed"
    /\ execution' = "failed"
    /\ spc' = "idle"
    /\ UNCHANGED <<sync_job, watermark, raw_records, batches, run_total, events, daemonVars, storageVars, callVars,
                   receiverVars, catalogVars>>

\* fetch_batch, handle or set_receiver_cursor raised (a database error, a
\* parser without handler): run raises where it is, the cursor row unwritten
sync_fail ==
    /\ \/ spc \in {"loop", "fetched"}
       \/ spc = "upsert" /\ session.status = "committed"
    /\ execution' = "failed"
    /\ spc' = "idle"
    /\ UNCHANGED <<sync_job, watermark, raw_records, batches, run_total, events,
                   daemonVars, storageVars, callVars, receiverVars, catalogVars>>

\* the loop was left: run returns its outcome
sync_return ==
    /\ spc = "done"
    /\ execution' = "success"
    /\ spc' = "idle"
    /\ UNCHANGED <<sync_job, watermark, raw_records, batches, run_total, events, daemonVars, storageVars, callVars,
                   receiverVars, catalogVars>>

(***************************************************************************)
(* fetch_batch called on its own.                                          *)
(***************************************************************************)
\* the arguments tried
FetchLimits == {0, 1, 2}
FetchParsers == {Txt("fixprice", FALSE, FALSE), Txt("fixprice", FALSE, TRUE),
                 Txt("chizhik", FALSE, FALSE)}
FetchStamps == {NoStamp, EmptyStamp, Stamp(1, ""), Stamp(1, "+00:00"),
                Stamp(2, "+00:00"), Stamp(2, "Z")}
FetchIds == {NoInt, Some(0), Some(2), Some(4)}

fetch_call(limit, parser_name, after_ingested_at, after_product_id) ==
    /\ fetched' = [limit |-> limit, parser_name |-> parser_name,
                   after_ingested_at |-> after_ingested_at,
                   after_product_id |-> after_product_id,
                   result |-> fetch_batch(receiver, limit, parser_name,
                                          after_ingested_at, after_product_id)]
    /\ UNCHANGED <<receiver, daemonVars, storageVars, callVars, syncVars, catalogVars>>

(***************************************************************************)
(* The package of a record (core/base.py, parsers/*/title_parser.py).  A   *)
(* title is the sequence of what the patterns of the parsers find in it:   *)
(* a word, a package "<q> <u>", a multipack "<count> x <q> <u>", a piece   *)
(* count, a by-weight or a by-volume word.  A unit of a title is g, kg,    *)
(* ml, l or L_LATIN, in either case; a quantity is a whole number, and a   *)
(* package_quantity is counted in thousandths of its unit.                 *)
(***************************************************************************)
TitlePiece(kind, count, q, u) == [kind |-> kind, count |-> count, q |-> q, u |-> u]

Word == TitlePiece("word", 0, 0, Txt("", FALSE, FALSE))
ByWeight == TitlePiece("by_weight", 0, 0, Txt("", FALSE, FALSE))
ByVolume == TitlePiece("by_volume", 0, 0, Txt("", FALSE, FALSE))

\* a (package_quantity, package_unit) pair; None is NoInt and "None"
Package(quantity, unit) == [package_quantity |-> quantity, package_unit |-> unit]

NoPackage == Package(NoInt, None)

\* _to_package_quantity, and the tail of fixprice's _extract_package
to_package_quantity(quantity_raw, unit_raw) ==
    CASE Lower(unit_raw).base = "g" -> Package(Some(quantity_raw), "KGM")
      [] Lower(unit_raw).base = "kg" -> Package(Some(quantity_raw * 1000), "KGM")
      [] Lower(unit_raw).base = "ml" -> Package(Some(quantity_raw), "LTR")
      [] Lower(unit_raw).base \in {"l", "L_LATIN"}
            -> Package(Some(quantity_raw * 1000), "LTR")
      [] OTHER -> NoPackage

\* the matches of MULTIPACK_RE, and of PACKAGE_RE or WVL_RE (which also
\* matches the "<q> <u>" of a multipack), as positions in the title
multipack_matches(title) == {i \in 1..Len(title) : title[i].kind = "multipack"}

package_matches(title) ==
    {i \in 1..Len(title) : title[i].kind \in {"package", "multipack"}}

Last(matches) == CHOOSE i \in matches : \A j \in matches : j <= i

First(matches) == CHOOSE i \in matches : \A j \in matches : i <= j

\* chizhik _extract_multipack (its package pair) and _extract_package
extract_multipack(title) ==
    IF multipack_matches(title) = {} THEN NoPackage
    ELSE to_package_quantity(title[Last(multipack_matches(title))].q,
                             title[Last(multipack_matches(title))].u)

extract_package(title) ==
    IF package_matches(title) = {} THEN NoPackage
    ELSE to_package_quantity(title[Last(package_matches(title))].q,
                             title[Last(package_matches(title))].u)

\* BY_WEIGHT_RE.search and BY_VOLUME_RE.search
by_weight(title) == \E i \in 1..Len(title) : title[i].kind = "by_weight"

by_volume(title) == \E i \in 1..Len(title) : title[i].kind = "by_volume"

\* ChizhikTitleParser.parse: package_quantity and package_unit
chizhik_parse(title) ==
    IF by_weight(title) \/ by_volume(title) THEN NoPackage
    ELSE IF /\ extract_multipack(title).package_quantity = NoInt
            /\ extract_multipack(title).package_unit = None
    THEN extract_package(title)
    ELSE extract_multipack(title)

\* FixPriceTitleParser.parse: package_quantity and package_unit, from the
\* first match of WVL_RE
fixprice_parse(title) ==
    IF by_weight(title) \/ by_volume(title) THEN NoPackage
    ELSE IF package_matches(title) = {} THEN NoPackage
    ELSE to_package_quantity(title[First(package_matches(title))].q,
                             title[First(package_matches(title))].u)

\* handler.normalize_title(raw.title), by the parser of the handler
normalize_title(parser_name, title) ==
    IF parser_name = "fixprice" THEN fixprice_parse(title) ELSE chizhik_parse(title)

\* a handle that keeps what the raw record has of the pair
HandlePackageKeepsRaw(parser_name, raw) ==
    IF raw.package_quantity = NoInt /\ raw.package_unit = None
    THEN normalize_title(parser_name, raw.title)
    ELSE Package(raw.package_quantity, raw.package_unit)

\* BaseParserHandler.handle: package_quantity and package_unit of the record
handle_package(parser_name, raw) ==
    IF raw.package_quantity = NoInt /\ raw.package_unit = None
    THEN normalize_title(parser_name, raw.title)
    ELSE IF (raw.package_quantity = NoInt) # (raw.package_unit = None)
    THEN normalize_title(parser_name, raw.title)
    ELSE Package(raw.package_quantity, raw.package_unit)

\* RawProductRecord: its title and its package
RawPackage(title, quantity, unit) ==
    [title |-> title, package_quantity |-> quantity, package_unit |-> unit]

\* a call of handle of the handler of a parser
handle_call(parser_name, raw) ==
    /\ called' = [op |-> "handle", parser_name |-> parser_name, raw |-> raw,
                  title |-> normalize_title(parser_name, raw.title),
                  record |-> handle_package(parser_name, raw)]
    /\ UNCHANGED <<daemonVars, receiverVars, syncVars, catalogVars, storageVars>>

\* the titles and the raw records handled
TitleInputs ==
    { <<Word>>,
      <<Word, TitlePiece("package", 0, 500, Txt("g", FALSE, FALSE))>>,
      <<Word, TitlePiece("package", 0, 2, Txt("kg", FALSE, TRUE))>>,
      <<Word, TitlePiece("package", 0, 330, Txt("ml", FALSE, FALSE)),
        TitlePiece("package", 0, 1, Txt("L_LATIN", FALSE, TRUE))>>,
      <<Word, TitlePiece("multipack", 6, 1, Txt("l", FALSE, FALSE))>>,
      <<TitlePiece("multipack", 2, 100, Txt("g", FALSE, TRUE)), Word,
        TitlePiece("package", 0, 3, Txt("l", FALSE, FALSE))>>,
      <<Word, TitlePiece("pieces", 10, 0, Txt("", FALSE, FALSE))>>,
      <<Word, ByWeight, TitlePiece("package", 0, 1, Txt("kg", FALSE, FALSE))>>,
      <<Word, ByVolume, TitlePiece("multipack", 2, 1, Txt("l", FALSE, FALSE))>> }

RawInputs ==
    {RawPackage(title, quantity, unit) :
        title \in TitleInputs, quantity \in {NoInt, Some(0), Some(250)},
        unit \in {None, "KGM", "LTR"}}

HandlerNames == {"fixprice", "chizhik"}

(***************************************************************************)
(* Image storage client (adapters/storage_http.py).  A string is the       *)
(* sequence of its pieces: a separator character, a percent escape, or a   *)
(* run of other characters.                                                *)
(***************************************************************************)
\* str.lstrip(c) and str.rstrip(c) for one character c
RECURSIVE lstrip(_, _)
lstrip(s, c) == IF s # <<>> /\ Head(s) = c THEN lstrip(Tail(s), c) ELSE s

RECURSIVE rstrip(_, _)
rstrip(s, c) ==
    IF s # <<>> /\ s[Len(s)] = c THEN rstrip(SubSeq(s, 1, Len(s) - 1), c) ELSE s

\* str.strip(): the white space off both ends
strip(s) == rstrip(lstrip(s, " "), " ")

\* str.startswith and str.removeprefix
startswith(s, prefix) ==
    Len(s) >= Len(prefix) /\ SubSeq(s, 1, Len(prefix)) = prefix

removeprefix(s, prefix) ==
    IF startswith(s, prefix) THEN SubSeq(s, Len(prefix) + 1, Len(s)) ELSE s

\* urllib.parse.unquote: a percent escape becomes the character it encodes
unquote(s) ==
    [i \in 1..Len(s) |->
        CASE s[i] \in {"%2F", "%2f"} -> "/"
          [] s[i] \in {"%5C", "%5c"} -> "\\"
          [] s[i] \in {"%2E", "%2e"} -> "."
          [] s[i] = "%20" -> " "
          [] s[i] = "%25" -> "%"
          [] OTHER -> s[i]]

\* urllib.parse.quote(s, safe=""): every reserved character is escaped, a
\* dot is not
quote(s) ==
    [i \in 1..Len(s) |->
        CASE s[i] = "/" -> "%2F"
          [] s[i] = "\\" -> "%5C"
          [] s[i] = " " -> "%20"
          [] s[i] = "%" -> "%25"
          [] OTHER -> s[i]]

\* ".." in s
has_dotdot(s) == \E i \in 1..(Len(s) - 1) : s[i] = "." /\ s[i + 1] = "."

\* a URL as urlparse splits it: scheme, netloc and path ("" where absent)
Url(scheme, netloc, path) == [scheme |-> scheme, netloc |-> netloc, path |-> path]

\* the text of a URL
text(url) ==
    (IF url.scheme # "" THEN <<url.scheme, ":">> ELSE <<>>)
    \o (IF url.netloc # "" THEN <<"/", "/", url.netloc>> ELSE <<>>)
    \o url.path

\* None where an image name is expected: the empty name, which
\* _image_name_from_url never returns
NoName == <<>>

API_IMAGES == <<"/", "api", "/", "images", "/">>
IMAGES == <<"/", "images", "/">>
IMAGES_RELATIVE == <<"images", "/">>

\* the name without the checks of its characters
ImageNameUnchecked(origin, url) ==
    LET path == IF url.scheme # "" /\ url.netloc # ""
                THEN url.path ELSE strip(text(url))
        clean_path == strip(path)
        image_name ==
            IF startswith(clean_path, API_IMAGES)
            THEN removeprefix(clean_path, API_IMAGES)
            ELSE IF startswith(clean_path, IMAGES)
            THEN removeprefix(clean_path, IMAGES)
            ELSE removeprefix(clean_path, IMAGES_RELATIVE)
        decoded == lstrip(strip(unquote(image_name)), "/")
    IN IF strip(text(url)) = <<>> THEN NoName
       ELSE IF /\ url.scheme # "" /\ url.netloc # ""
               /\ <<url.scheme, url.netloc>> # origin THEN NoName
       ELSE IF /\ ~startswith(clean_path, API_IMAGES)
               /\ ~startswith(clean_path, IMAGES)
               /\ ~startswith(clean_path, IMAGES_RELATIVE) THEN NoName
       ELSE decoded

\* StorageHTTPRepository._image_name_from_url
image_name_from_url(origin, url) ==
    LET path == IF url.scheme # "" /\ url.netloc # ""
                THEN url.path ELSE strip(text(url))
        clean_path == strip(path)
        image_name ==
            IF startswith(clean_path, API_IMAGES)
            THEN removeprefix(clean_path, API_IMAGES)
            ELSE IF startswith(clean_path, IMAGES)
            THEN removeprefix(clean_path, IMAGES)
            ELSE removeprefix(clean_path, IMAGES_RELATIVE)
        decoded == lstrip(strip(unquote(image_name)), "/")
    IN IF strip(text(url)) = <<>> THEN NoName
       ELSE IF /\ url.scheme # "" /\ url.netloc # ""
               /\ <<url.scheme, url.netloc>> # origin THEN NoName
       ELSE IF /\ ~startswith(clean_path, API_IMAGES)
               /\ ~startswith(clean_path, IMAGES)
               /\ ~startswith(clean_path, IMAGES_RELATIVE) THEN NoName
       ELSE IF decoded = <<>> THEN NoName
       ELSE IF \E i \in 1..Len(decoded) : decoded[i] \in {"/", "\\"} THEN NoName
       ELSE IF has_dotdot(decoded) THEN NoName
       ELSE decoded

\* StorageHTTPRepository._extract_unique_image_names: the names of the URLs
\* that have one, each once, in the order they are first seen
extract_unique_image_names(origin, urls) ==
    LET keep == {i \in 1..Len(urls) :
                    /\ image_name_from_url(origin, urls[i]) # NoName
                    /\ \A j \in 1..(i - 1) :
                          image_name_from_url(origin, urls[j])
                             # image_name_from_url(origin, urls[i])}
    IN [k \in 1..Cardinality(keep) |->
           image_name_from_url(origin,
               urls[CHOOSE i \in keep :
                       Cardinality({j \in keep : j < i}) = k - 1])]

\* StorageHTTPRepository(base_url, fail_on_error) and the delete_images call
\* it is in: the names still to delete, the DELETE requests sent, what
\* urlopen did with each, the warnings logged
StorageHTTPRepository(origin, fail_on_error) ==
    [origin |-> origin, fail_on_error |-> fail_on_error, pc |-> "idle",
     urls |-> <<>>, image_names |-> <<>>, pos |-> 1, requests |-> <<>>,
     replies |-> <<>>, warnings |-> <<>>]

BASE_ORIGIN == <<"http", "storage.local">>

StorageIdle ==
    /\ storage = StorageHTTPRepository(BASE_ORIGIN, FALSE)
    /\ called = NoCall

\* what urlopen does with a DELETE request: it returns a response, raises
\* HTTPError with the status of the response, or raises URLError
Reply(raises, status) == [raises |-> raises, status |-> status]

Replies ==
    {Reply("none", 204), Reply("none", 200), Reply("HTTPError", 404),
     Reply("HTTPError", 500), Reply("URLError", 0)}

\* the DELETE request of _delete_one
DeleteRequest(image_name) ==
    [method |-> "DELETE", image_name |-> image_name,
     path |-> API_IMAGES \o quote(image_name)]

\* how _delete_one ends: it returns, logs a warning and returns, or raises
delete_one_outcome(fail_on_error, reply) ==
    IF reply.raises = "none"
    THEN IF reply.status \in {204, 404} THEN "return" ELSE "raise"
    ELSE IF reply.raises = "HTTPError"
    THEN IF reply.status = 404 THEN "return"
         ELSE IF fail_on_error THEN "raise" ELSE "warn"
    ELSE IF fail_on_error THEN "raise" ELSE "warn"

\* delete_images(urls), up to its loop
delete_images(urls) ==
    /\ storage.pc = "idle"
    /\ storage' =
          [storage EXCEPT
             !.urls = urls,
             !.image_names = extract_unique_image_names(storage.origin, urls),
             !.pc = IF extract_unique_image_names(storage.origin, urls) = <<>>
                    THEN "returned" ELSE "deleting"]
    /\ UNCHANGED <<daemonVars, receiverVars, syncVars, catalogVars, callVars>>

\* one round of the loop of delete_images: _delete_one(image_name)
delete_one(reply) ==
    /\ storage.pc = "deleting"
    /\ LET image_name == storage.image_names[storage.pos]
           outcome == delete_one_outcome(storage.fail_on_error, reply)
       IN storage' =
             [storage EXCEPT
                !.requests = Append(@, DeleteRequest(image_name)),
                !.replies = Append(@, reply),
                !.warnings = IF outcome = "warn" THEN Append(@, image_name) ELSE @,
                !.pos = IF outcome = "raise" THEN @ ELSE @ + 1,
                !.pc = IF outcome = "raise" THEN "raised"
                       ELSE IF storage.pos = Len(storage.image_names)
                       THEN "returned" ELSE "deleting"]
    /\ UNCHANGED <<daemonVars, receiverVars, syncVars, catalogVars, callVars>>

\* the URLs handed to delete_images
UrlInputs ==
    { Url("http", "storage.local", IMAGES \o <<"a", ".", "webp">>),
      Url("http", "storage.local", API_IMAGES \o <<"a", ".", "webp">>),
      Url("http", "storage.local", IMAGES \o <<"b", ".", "webp">>),
      Url("http", "storage.local", IMAGES \o <<"a", "%2E", "webp">>),
      Url("http", "storage.local", IMAGES \o <<"x", "%2F", "a", ".", "webp">>),
      Url("http", "storage.local", IMAGES \o <<"%2E", "%2E", "a">>),
      Url("http", "storage.local", IMAGES \o <<"x", "%5C", "a">>),
      Url("http", "storage.local", <<"/", "files", "/", "a", ".", "webp">>),
      Url("http", "other-host", IMAGES \o <<"c", ".", "webp">>),
      Url("https", "storage.local", IMAGES \o <<"c", ".", "webp">>),
      Url("", "other-host", IMAGES \o <<"c", ".", "webp">>),
      Url("", "", IMAGES_RELATIVE \o <<"b", ".", "webp">>),
      Url("", "", <<" ">> \o IMAGES \o <<"/", "d", " ", "e", " ">>),
      Url("", "", IMAGES \o <<"x", "/", "a", ".", "webp">>),
      Url("", "", IMAGES \o <<".", ".", "/", "secret">>),
      Url("", "", <<>>) }

\* the list of URLs of a call: at most MaxUrls of them
UrlLists ==
    UNION {[1..n -> UrlInputs] : n \in 0..MaxUrls}

(***************************************************************************)
(* Properties of the sync engine, the receiver and the catalog.            *)
(***************************************************************************)
\* the cursor row of the job's parser as an (ingested_at, product_id) pair
PersistedCursor ==
    Cursor(get_receiver_cursor(catalog, parser_name_of(sync_job)).ingested_at,
           int_or_0(get_receiver_cursor(catalog, parser_name_of(sync_job)).product_id))

\* the canonical ids of the rows of a catalog
IdsIn(cat) ==
    {r.canonical_product_id : r \in cat.identity_map}
    \cup {r.canonical_product_id : r \in cat.product_snapshots}
    \cup {r.canonical_product_id : r \in cat.product_sources}
    \cup {r.canonical_product_id : r \in cat.products}

\* C4: if upsert_many raises while processing a record of a batch, nothing
\* of the batch is committed: the committed tables, the cursor row among
\* them, are what they were before every step of the open transaction and
\* before the step on which it fails; after the failure the rolled-back
\* session holds no row, and the only step of the job is to end as failed,
\* leaving the catalog and its cursor row as they were.
C4_FailedBatchLeavesNothing ==
    /\ [][session.status = "open" /\ session'.status # "committed"
            => catalog' = catalog]_vars
    /\ [][session.status = "failed" /\ spc = "upsert"
            => /\ catalog' = catalog
               /\ execution' = "failed"
               /\ spc' = "idle"]_vars
    /\ [](session.status = "failed"
            => session.db = catalog /\ session.new = NoPending)

\* C4 witness: the second batch of a job failed after one of its records had
\* been given a new canonical id; the job ended as failed, the cursor row is
\* the one of the first batch and no row of the catalog carries that id.
C4_Witness ==
    /\ execution = "failed"
    /\ session.status = "failed"
    /\ batches = 1
    /\ PersistedCursor = Cursor(watermark.ingested_at, int_or_0(watermark.product_id))
    /\ watermark = Cursor(isoformat(raw_records[1].observed_at), watermark.product_id)
    /\ \E i \in 1..Len(session.records) :
          /\ session.records[i].canonical_product_id # NoInt
          /\ session.records[i].canonical_product_id[1] \notin IdsIn(catalog)

\* the receiver product ids of a list of raw records, of normalized records
RawIds(records) ==
    [i \in 1..Len(records) |-> records[i].payload.receiver_product_id]
NormalizedIds(records) ==
    [i \in 1..Len(records) |-> records[i].receiver_product_id]

\* C5: within one job the transaction of upsert_many is committed before
\* the cursor row is rewritten (the cursor row changes only on the step
\* after the commit of the transaction of the batch fetched last), the
\* cursor row is rewritten before the next fetch_batch (a fetch finds no
\* open transaction and the cursor row equal to the watermark it passes),
\* and while a transaction is open no fetch and no cursor write happens.
C5_BatchOrdering ==
    [][/\ (catalog'.sync_state # catalog.sync_state
              \/ (spc = "upsert" /\ spc' = "loop"))
          => /\ spc = "upsert" /\ spc' = "loop"
             /\ session.status = "committed"
             /\ session' = session
             /\ session.db.product_snapshots = catalog.product_snapshots
             /\ NormalizedIds(session.records) = RawIds(raw_records)
       /\ (spc = "loop" /\ spc' # "loop")
          => /\ session.status # "open"
             /\ get_receiver_cursor(catalog, parser_name_of(sync_job)) = watermark
       /\ (session.status # "open" /\ session'.status = "open")
          => /\ spc = "fetched"
             /\ NormalizedIds(session'.records) = RawIds(raw_records)
       /\ session.status = "open"
          => /\ raw_records' = raw_records
             /\ fetched' = fetched
             /\ catalog'.sync_state = catalog.sync_state
             /\ spc' = spc]_vars

\* C5 witness: the second batch of a job has been fetched; the transaction
\* of the first is committed and the cursor row holds its watermark.
C5_Witness ==
    /\ spc = "fetched"
    /\ batches = 1
    /\ session.status = "committed"
    /\ watermark.product_id # NoInt
    /\ get_receiver_cursor(catalog, parser_name_of(sync_job)) = watermark
    /\ RawIds(raw_records) # NormalizedIds(session.records)

RowsOf(j) ==
    {r \in receiver : Lower(r.parser_name) = Lower(parser_name_of(j))}

\* C7: a job with max_batches = 0 over a receiver that does not change
\* stops after finitely many batches: every batch holds an observation that
\* no earlier batch of the run held, so a run never completes more batches
\* than the receiver has rows of the job's parser.
C7_DrainTerminates ==
    sync_job.max_batches = 0 => batches <= Cardinality(RowsOf(sync_job))

\* the (ingested_at, product_id) of an observation, as the receiver stores it
StoredKey(rec) ==
    Cursor(rec.payload.receiver_ingested_at, rec.payload.receiver_product_id[1])

\* is (ingested_at, product_id) strictly above the watermark (a, b)
Above(key, a, b) ==
    \/ safe_str(a) = NoStamp
    \/ TextLess(a, key.ingested_at)
    \/ key.ingested_at = a /\ key.product_id > int_or_0(b)

\* the rows fetch_batch is to choose from, for the arguments of the last call
Matching ==
    {r \in receiver :
        /\ Lower(r.parser_name) = Lower(fetched.parser_name)
        /\ Above(Cursor(r.ingested_at, r.id), fetched.after_ingested_at,
                 fetched.after_product_id)}

\* C8: fetch_batch returns the first max(1, limit) observations, in
\* ascending (ingested_at, product_id) order, among those whose artifact
\* parser equals parser_name case-insensitively and whose (ingested_at,
\* product_id) is strictly greater than (a, b); without a watermark, among
\* all the observations of that parser.
C8_FetchBatch ==
    fetched # NoFetch =>
      /\ Len(fetched.result) =
            IF Cardinality(Matching) < Max(1, fetched.limit)
            THEN Cardinality(Matching) ELSE Max(1, fetched.limit)
      /\ \A i \in 1..Len(fetched.result) :
            \E r \in Matching :
               fetched.result[i] = map_receiver_row_to_raw_product(r)
      /\ \A i, k \in 1..Len(fetched.result) :
            i < k => CursorLess(StoredKey(fetched.result[i]),
                                StoredKey(fetched.result[k]))
      /\ \A r \in Matching :
            \/ \E i \in 1..Len(fetched.result) :
                  fetched.result[i].payload.receiver_product_id = Some(r.id)
            \/ \A i \in 1..Len(fetched.result) :
                  CursorLess(StoredKey(fetched.result[i]),
                             Cursor(r.ingested_at, r.id))

\* C8 witness: with limit 1 and the watermark at the first of three rows of
\* the parser, the result is the row that shares the timestamp of the
\* watermark and has the next id; a later row is left for the next call.
C8_Witness ==
    /\ fetched.limit = 1
    /\ fetched.after_ingested_at = Stamp(1, "+00:00")
    /\ fetched.after_product_id = Some(2)
    /\ Len(fetched.result) = 1
    /\ fetched.result[1].payload.receiver_product_id = Some(3)
    /\ fetched.result[1].payload.receiver_ingested_at = Stamp(1, "+00:00")
    /\ Cardinality(Matching) = 2
    /\ Cardinality(receiver) = 3

\* C9: any two records with equal (parser_name, plu) carry the same
\* canonical_product_id after their upserts.
C9_SamePluSameId ==
    \A r1, r2 \in carried :
        (r1.parser_name = r2.parser_name /\ r1.plu = r2.plu)
        => r1.canonical_product_id = r2.canonical_product_id

\* C10: once an identity (parser_name, identity_type, identity_value) has a
\* canonical_product_id in the identity map, no upsert_many changes the id
\* mapped to it, whatever the identity type.
C10_IdentityNeverRemapped ==
    [][\A r \in catalog.identity_map : r \in catalog'.identity_map]_vars

(***************************************************************************)
(* HTTP trigger (daemon.py:212-386): ConverterDaemonHTTPServer and the     *)
(* POST handler of ConverterDaemonRequestHandler.  A header or a JSON      *)
(* field that is absent is NoText; a JSON number that is absent is NoInt.  *)
(***************************************************************************)
\* _first_non_empty
first_non_empty(value, fallback) ==
    IF safe_text(value) # NoText THEN safe_text(value) ELSE fallback

\* (x or "").strip() or None
strip_or_none(x) == safe_text(x)

\* _to_int, for a value that is None or an int
to_int(value, default, minimum) ==
    Max(minimum, IF value = NoInt THEN default ELSE value[1])

\* ConverterDaemonHTTPServer.__init__
ConverterDaemonHTTPServer(receiver_db, catalog_db, parser_name, batch_size, max_batches, auth_token) ==
    [default_receiver_db |-> strip_or_none(receiver_db),
     default_catalog_db |-> strip_or_none(catalog_db),
     default_parser_name |-> IF Strip(parser_name).base # ""
                             THEN Strip(parser_name) ELSE FIXPRICE,
     default_batch_size |-> Max(1, batch_size),
     default_max_batches |-> Max(0, max_batches),
     auth_token |-> strip_or_none(auth_token)]

\* the server built with the defaults of the constructor
ServerDefault ==
    ConverterDaemonHTTPServer(NoText, NoText, FIXPRICE, 250, 0, NoText)

\* the servers of the model: with and without token, with and without
\* default databases
ServerInputs ==
    { ServerDefault,
      ConverterDaemonHTTPServer(NoText, NoText, FIXPRICE, 250, 0,
                                Txt("tok", TRUE, FALSE)),
      ConverterDaemonHTTPServer(Txt("recv", TRUE, FALSE), Txt("cat", FALSE, FALSE),
                                Txt("", TRUE, FALSE), 0, 2,
                                Txt("tok", FALSE, FALSE)) }

\* an Authorization header "<scheme> <credentials>", or NoHeader
Header(scheme, credentials) == [scheme |-> scheme, credentials |-> credentials]
NoHeader == Header(NoText, NoText)

\* the JSON object of a request body
Payload(receiver_db, catalog_db, parser_name, batch_size, max_batches) ==
    [receiver_db |-> receiver_db, catalog_db |-> catalog_db,
     parser_name |-> parser_name, batch_size |-> batch_size,
     max_batches |-> max_batches, run_id |-> NoText, source |-> NoText]

EmptyPayload == Payload(NoText, NoText, NoText, NoInt, NoInt)

\* a request body: kind is "absent" (no Content-Length), "bad_length",
\* "empty", "not_json", "not_object" or "object"
Body(kind, payload) == [kind |-> kind, payload |-> payload]

\* a POST request; the path is kept without its trailing slashes, slash
\* telling whether it had any
Request(path, slash, authorization, token, body) ==
    [path |-> path, slash |-> slash, authorization |-> authorization,
     x_converter_token |-> token, body |-> body]

\* self.path.rstrip("/")
rstrip_slash(req) == req.path

\* ConverterDaemonRequestHandler._check_auth: None or "invalid_token"
check_auth(srv, req) ==
    IF srv.auth_token = NoText THEN ""
    ELSE IF /\ req.authorization # NoHeader
            /\ Lower(Strip(req.authorization.scheme)).base = "bearer"
            /\ Strip(req.authorization.credentials) = srv.auth_token
         THEN ""
    ELSE IF /\ req.x_converter_token # NoText
            /\ Strip(req.x_converter_token) = srv.auth_token
         THEN ""
    ELSE "invalid_token"

\* ConverterDaemonRequestHandler._read_json: the error raised, "" for none
read_json_error(body) ==
    CASE body.kind = "bad_length" -> "invalid Content-Length"
      [] body.kind = "not_json" -> "request body must be valid JSON"
      [] body.kind = "not_object" -> "request body must be a JSON object"
      [] OTHER -> ""

\* ConverterDaemonRequestHandler._read_json: the dict returned
read_json(body) == IF body.kind = "object" THEN body.payload ELSE EmptyPayload

\* the QueueJob do_POST builds from the payload and the defaults
job_of_request(srv, payload) ==
    QueueJob(first_non_empty(payload.receiver_db, srv.default_receiver_db),
             first_non_empty(payload.catalog_db, srv.default_catalog_db),
             first_non_empty(payload.parser_name, srv.default_parser_name),
             to_int(payload.batch_size, srv.default_batch_size, 1),
             to_int(payload.max_batches, srv.default_max_batches, 0),
             "none", "receiver")

\* why do_POST answers without calling enqueue: the status and the error
\* of the answer, status 0 when it goes on to enqueue
reject(srv, req) ==
    IF rstrip_slash(req) \notin {"/trigger", "/enqueue"}
    THEN [status |-> 404, error |-> "not_found"]
    ELSE IF check_auth(srv, req) # ""
    THEN [status |-> 401, error |-> check_auth(srv, req)]
    ELSE IF read_json_error(req.body) # ""
    THEN [status |-> 400, error |-> read_json_error(req.body)]
    ELSE IF job_of_request(srv, read_json(req.body)).receiver_db = NoText
    THEN [status |-> 400, error |-> "receiver_db is required"]
    ELSE IF job_of_request(srv, read_json(req.body)).catalog_db = NoText
    THEN [status |-> 400, error |-> "catalog_db is required"]
    ELSE [status |-> 0, error |-> ""]

NoRequest == Request("", FALSE, NoHeader, NoText, Body("absent", EmptyPayload))

\* no response sent yet
NoResponse ==
    [sent |-> 0, status |-> 0, error |-> "", result |-> NoResult,
     job |-> NoJob, request |-> NoRequest]

\* _send_json(status, {"error": ...}), in answer to req
send_error(status, error, req) ==
    response' = [sent |-> response.sent + 1, status |-> status,
                 error |-> error, result |-> NoResult, job |-> NoJob,
                 request |-> req]

\* a status that is 202 whatever the result
StatusAccepted(result) == 202

\* the status do_POST gives an enqueue result
status_of(result) == IF result.reason = "queue_full" THEN 429 ELSE 202

\* _send_json(status, {accepted, duplicate, reason, queue_size, key, job})
send_result(result, job) ==
    response' = [sent |-> response.sent + 1, status |-> status_of(result),
                 error |-> "", result |-> result, job |-> job,
                 request |-> NoRequest]

\* the requests in progress: their handler is inside enqueue
InProgress == {t \in Threads : ecall[t].pc # "idle"}

\* a do_POST that builds and enqueues the job before it looks at the
\* path, the token and the body
DoPostEnqueuesFirst(t, req) ==
    /\ ecall[t].pc = "idle"
    /\ response.sent + Cardinality(InProgress) < MaxRequests
    /\ enqueue_check(t, job_of_request(server, read_json(req.body)))
    /\ IF reject(server, req).status # 0
       THEN send_error(reject(server, req).status, reject(server, req).error,
                       req)
       ELSE IF ecall'[t].pc = "idle"
       THEN send_result(eresult', job_of_request(server, read_json(req.body)))
       ELSE UNCHANGED response

\* do_POST up to the first locked section of enqueue: an answer without
\* enqueue, the answer to a duplicate, or the key made pending
do_POST(t, req) ==
    /\ ecall[t].pc = "idle"
    /\ response.sent + Cardinality(InProgress) < MaxRequests
    /\ IF reject(server, req).status # 0
       THEN /\ send_error(reject(server, req).status, reject(server, req).error,
                          req)
            /\ UNCHANGED <<queue, pending_keys, active_keys, total_enqueued,
                           total_duplicates, total_processed, total_failed,
                           stop_event, worker, wthread, ecall, eresult, stopper,
                           ncalls, nput, nstarted, lastStarted, started, max_queue_size,
                           server, pipelineVars>>
       ELSE /\ enqueue_check(t, job_of_request(server, read_json(req.body)))
            /\ IF ecall'[t].pc = "idle"
               THEN send_result(eresult',
                                job_of_request(server, read_json(req.body)))
               ELSE UNCHANGED response

\* do_POST after put_nowait raised Full: enqueue returns, the answer is sent
do_POST_full(t) ==
    /\ enqueue_full(t)
    /\ send_result(eresult', ecall[t].job)

\* do_POST after put_nowait: enqueue returns, the answer is sent
do_POST_accepted(t) ==
    /\ enqueue_accepted(t)
    /\ send_result(eresult', ecall[t].job)

\* the requests clients send
RequestInputs ==
    LET good == Header(Txt("bearer", FALSE, TRUE), Txt("tok", TRUE, FALSE))
        basic == Header(Txt("basic", FALSE, TRUE), Txt("tok", FALSE, FALSE))
        wrong == Header(Txt("bearer", FALSE, FALSE), Txt("tok", FALSE, TRUE))
        tok == Txt("tok", FALSE, FALSE)
        full == Body("object", Payload(Txt("recv", FALSE, FALSE),
                                       Txt("cat", TRUE, FALSE),
                                       Txt("fixprice", FALSE, TRUE), Some(0), NoInt))
        other == Body("object", Payload(Txt("recv", FALSE, FALSE),
                                        Txt("cat", FALSE, FALSE),
                                        Txt("chizhik", FALSE, FALSE), NoInt, Some(3)))
        partial == Body("object", Payload(Txt("recv", FALSE, FALSE),
                                          Txt("", TRUE, FALSE), NoText, NoInt, NoInt))
    IN { Request("/trigger", FALSE, good, NoText, full),
         Request("/enqueue", TRUE, NoHeader, tok, other),
         Request("/trigger", FALSE, NoHeader, NoText, full),
         Request("/enqueue", FALSE, basic, NoText, other),
         Request("/trigger", FALSE, wrong, Txt("tok", TRUE, FALSE), partial),
         Request("/trigger", FALSE, wrong, NoText, full),
         Request("/enqueue", FALSE, good, NoText, Body("absent", EmptyPayload)),
         Request("/enqueue", FALSE, good, NoText, Body("not_json", EmptyPayload)),
         Request("/trigger", FALSE, NoHeader, tok, Body("not_object", EmptyPayload)),
         Request("/trigger", FALSE, NoHeader, tok, Body("bad_length", EmptyPayload)),
         Request("/health", FALSE, good, NoText, full),
         Request("/", TRUE, NoHeader, NoText, other) }

\* the identity-map rows of a catalog for one key
IdentityRows(cat, parser_name, identity_type, identity_value) ==
    get_identity_map_row(cat, Lower(Strip(parser_name)), identity_type,
                         identity_value)

\* does a record hit no identity of the catalog: neither one of its
\* plu/sku/source_id candidates nor its normalized name
HitsNothing(cat, rec) ==
    /\ \A i \in 1..Len(identity_candidates(rec)) :
          IdentityRows(cat, rec.parser_name, identity_candidates(rec)[i][1],
                       identity_candidates(rec)[i][2]) = {}
    /\ IdentityRows(cat, rec.parser_name, "normalized_name",
                    Str(fallback_identity_value(rec))) = {}

\* two records of one call with the same normalized-name identity
SameNameIdentity(r1, r2) ==
    /\ Lower(Strip(r1.parser_name)) = Lower(Strip(r2.parser_name))
    /\ fallback_identity_value(r1) # None
    /\ fallback_identity_value(r1) = fallback_identity_value(r2)

\* a step that ends a call of upsert_many, other than by a database fault
UpsertEnds ==
    /\ session.status = "open"
    /\ session'.status \in {"committed", "failed"}
    /\ session'.error # "OperationalError"

\* C11: two records of one upsert_many batch that hit no identity of the
\* catalog and have the same normalized-name identity receive the same
\* freshly minted canonical_product_id, and the identity map ends with
\* exactly one row for that normalized-name key (holding that id).
C11_SameBatchSameName ==
    [][UpsertEnds =>
        \A i, k \in 1..Len(session.records) :
           (/\ i < k
            /\ HitsNothing(catalog, session.records[i])
            /\ HitsNothing(catalog, session.records[k])
            /\ SameNameIdentity(session.records[i], session.records[k]))
           => /\ session'.status = "committed"
              /\ session'.records[i].canonical_product_id # NoInt
              /\ session'.records[i].canonical_product_id =
                    session'.records[k].canonical_product_id
              /\ session'.records[i].canonical_product_id[1] \notin IdsIn(catalog)
              /\ \E row \in IdentityRows(catalog', session.records[i].parser_name,
                                "normalized_name",
                                Str(fallback_identity_value(session.records[i]))) :
                    /\ IdentityRows(catalog', session.records[i].parser_name,
                                    "normalized_name", row.identity_value) = {row}
                    /\ row.canonical_product_id =
                          session'.records[i].canonical_product_id[1]]_vars

\* C11 witness: a committed batch of two records with different sku/source
\* ids and one normalized name, both carrying the one id minted in the call.
C11_Witness ==
    /\ session.status = "committed"
    /\ Len(session.records) = 2
    /\ SameNameIdentity(session.records[1], session.records[2])
    /\ identity_candidates(session.records[1])
          # identity_candidates(session.records[2])
    /\ session.records[1].canonical_product_id = Some(uuid)
    /\ session.records[2].canonical_product_id = Some(uuid)
    /\ uuid = 1

\* a record whose optional fields are all missing, with a source_id
AllMissing(rec) ==
    /\ rec.source_id # NoSourceId
    /\ is_missing(rec.plu) /\ is_missing(rec.sku) /\ is_missing(rec.brand)
    /\ is_missing_number(rec.available_count)
    /\ rec.image_urls = <<>>
    /\ ~rec.categories

\* the catalog_products rows of the (parser_name, source_id) of a record
RowsOfSource(db, rec) ==
    {r \in db.products :
        r.parser_name = rec.parser_name /\ r.source_id = rec.source_id}

\* every non-title field that was non-empty in old is the same in new
KeepsFields(old, new) ==
    /\ ~is_missing(old.plu) => new.plu = old.plu
    /\ ~is_missing(old.sku) => new.sku = old.sku
    /\ ~is_missing(old.brand) => new.brand = old.brand
    /\ ~is_missing_number(old.available_count)
          => new.available_count = old.available_count
    /\ old.image_urls # <<>> => new.image_urls = old.image_urls
    /\ old.primary_category => new.primary_category

\* a round of the loop of upsert_many has handled the record at session.pos
RecordUpserted ==
    /\ session.status = "open"
    /\ session'.status = "open"
    /\ session'.pos = session.pos + 1

\* C12: upserting a record whose optional fields are all missing, for an
\* existing (parser_name, source_id), leaves every non-title field of the
\* catalog_products row that was non-empty unchanged.
C12_NullUpsertKeepsFields ==
    [][(RecordUpserted /\ AllMissing(session.records[session.pos]))
       => \A old \in RowsOfSource(session.db, session.records[session.pos]) :
             \E new \in session'.db.products :
                new.id = old.id /\ KeepsFields(old, new)]_vars

\* the snapshot rows of a table for the (parser_name, source_id) of a record
SnapshotsOf(snapshots, rec) ==
    {r \in snapshots :
        r.parser_name = rec.parser_name /\ r.source_id = rec.source_id}

\* the step that commits a call of upsert_many
UpsertCommits ==
    /\ session.status = "open"
    /\ session'.status = "committed"

\* C13: catalog_product_snapshots is append-only: no step changes or deletes
\* a snapshot row, in the table or within an open transaction; every round
\* of the loop of upsert_many adds exactly one row, and a committed call adds
\* one row per record, so that k records of a (parser_name, source_id) add k
\* snapshots of it.
C13_SnapshotsAppendOnly ==
    [][/\ catalog.product_snapshots \subseteq catalog'.product_snapshots
       /\ RecordUpserted =>
             /\ session.db.product_snapshots
                   \subseteq session'.db.product_snapshots
             /\ Cardinality(session'.db.product_snapshots)
                   = Cardinality(session.db.product_snapshots) + 1
       /\ UpsertCommits =>
             /\ Cardinality(catalog'.product_snapshots)
                   = Cardinality(catalog.product_snapshots) + Len(session.records)
             /\ \A i \in 1..Len(session.records) :
                   session.records[i].source_id # NoSourceId =>
                      Cardinality(SnapshotsOf(catalog'.product_snapshots,
                                              session.records[i]))
                      = Cardinality(SnapshotsOf(catalog.product_snapshots,
                                                session.records[i]))
                        + Cardinality({k \in 1..Len(session.records) :
                             /\ session.records[k].parser_name
                                   = session.records[i].parser_name
                             /\ session.records[k].source_id
                                   = session.records[i].source_id})]_vars

\* C13 witness: three committed upserts of one (parser_name, source_id) have
\* left three snapshots of it.
C13_Witness ==
    /\ session.status = "committed"
    /\ submitted = 3
    /\ \E rec \in RecordInputs :
          /\ rec.source_id # NoSourceId
          /\ Cardinality(SnapshotsOf(catalog.product_snapshots, rec)) = 3

\* C14: when a call of upsert_many ends, catalog_products holds exactly one
\* row for the (parser_name, source_id) of every record of the call, also
\* when two records of the batch carry the same (parser_name, source_id).
C14_OneRowPerSource ==
    [][UpsertEnds =>
        \A i \in 1..Len(session.records) :
           session.records[i].source_id # NoSourceId =>
              Cardinality(RowsOfSource(catalog', session.records[i])) = 1]_vars

\* the rows of catalog_image_fingerprints for the fingerprint of a URL
FingerprintRows(cat, url) ==
    {f \in cat.image_fingerprints : f.fingerprint = url}

\* C15: no step changes or removes a row of catalog_image_fingerprints, and
\* when a call of upsert_many ends the table holds exactly one row, with the
\* URL as canonical_url, for every image URL of every record of the call,
\* each record keeping a URL once, also when a URL occurs twice within one
\* record or in two records of the batch.
C15_OneFingerprintPerUrl ==
    [][/\ catalog.image_fingerprints \subseteq catalog'.image_fingerprints
       /\ UpsertEnds =>
             \A i \in 1..Len(session.records) :
                \A k \in 1..Len(session'.records[i].image_urls) :
                   /\ FingerprintRows(catalog', session'.records[i].image_urls[k])
                         = {[fingerprint |-> session'.records[i].image_urls[k],
                             canonical_url |-> session'.records[i].image_urls[k]]}
                   /\ \A j \in 1..Len(session'.records[i].image_urls) :
                         j # k => session'.records[i].image_urls[j]
                                     # session'.records[i].image_urls[k]]_vars

\* the snapshots, written before the round, of the canonical id under which
\* the round writes its snapshot, that have a brand
EarlierWithBrand ==
    {h \in session.db.product_snapshots :
        /\ ~is_missing(h.brand)
        /\ \E n \in session'.db.product_snapshots
                      \ session.db.product_snapshots :
              n.canonical_product_id = h.canonical_product_id}

\* C16: back-fill, for the field brand.  When the record of a round has no
\* brand and an earlier snapshot of its canonical id has one, the record
\* leaves the round with the brand of a snapshot whose distance in
\* observed_at to the record is the least among those with a brand; a brand
\* the record came with is never replaced, and the brand no longer changes
\* in the rest of the call.
C16_BackfillNearest ==
    [][/\ RecordUpserted =>
          LET rec == session.records[session.pos]
              out == session'.records[session.pos]
          IN /\ ~is_missing(rec.brand) => out.brand = rec.brand
             /\ (is_missing(rec.brand) /\ EarlierWithBrand # {}) =>
                   \E h \in EarlierWithBrand :
                      /\ out.brand = h.brand
                      /\ \A o \in EarlierWithBrand :
                            Delta(h.observed_at, rec.observed_at)
                               <= Delta(o.observed_at, rec.observed_at)
       /\ session.status = "open" =>
             \A i \in 1..(session.pos - 1) :
                session'.records[i].brand = session.records[i].brand]_vars

\* C16 witness: a committed record that came without a brand carries the
\* brand of the snapshot of its canonical id nearest in observed_at, which
\* is not the first snapshot of that id with a brand.
C16_Witness ==
    /\ session.status = "committed"
    /\ \E i \in 1..Len(session.records) :
          /\ session.records[i].plu = None
          /\ session.records[i].source_id = SourceId("id", "X", 0, 0)
          /\ session.records[i].observed_at = 2
          /\ session.records[i].brand = "b2"
          /\ \E h1, h2 \in catalog.product_snapshots :
                /\ h1.canonical_product_id = h2.canonical_product_id
                /\ h1.id < h2.id
                /\ h1.brand = "b1" /\ h1.observed_at = 1
                /\ h2.brand = "b2" /\ h2.observed_at = 2
                /\ session.records[i].canonical_product_id
                      = Some(h1.canonical_product_id)

\* an enqueue call whose key was neither pending nor active makes its push
\* when the queue holds n items: the push fails, the call returns
\* accepted=false, duplicate=false, reason "queue_full", and leaves the key
\* out of the pending set, the queue and total_enqueued as they were
QueueFullAt(n) ==
    \A t \in Threads :
       /\ (ecall[t].pc = "put" /\ ecall'[t].pc # "put" /\ Len(queue) = n) =>
             /\ ecall'[t].pc = "full"
             /\ queue' = queue
             /\ total_enqueued' = total_enqueued
       /\ (ecall[t].pc = "full" /\ ecall'[t].pc # "full") =>
             /\ eresult' = EnqueueResult(FALSE, FALSE, "queue_full", Len(queue),
                                         dedupe_key(ecall[t].job))
             /\ dedupe_key(ecall[t].job) \notin pending_keys'
             /\ ecall'[t] = IdleCall
             /\ queue' = queue
             /\ total_enqueued' = total_enqueued

\* C17 as stated: an enqueue of a job whose key is neither pending nor
\* active, pushing while the queue holds max_queue_size items, returns
\* accepted=false, duplicate=false, reason "queue_full"; the key is then not
\* pending, the queue and total_enqueued are unchanged.
C17_QueueFull == [][QueueFullAt(max_queue_size)]_vars

\* C17 amended: the same for a push made while the queue holds
\* max(1, max_queue_size) items, the capacity the constructor gives it.
C17_QueueFullAtCapacity == [][QueueFullAt(maxsize)]_vars

\* C17 witness: a call has just returned queue_full, the queue holds its
\* capacity of jobs and the key of the call is not pending.
C17_Witness ==
    /\ eresult.reason = "queue_full"
    /\ ~eresult.accepted /\ ~eresult.duplicate
    /\ Len(queue) = maxsize
    /\ eresult.queue_size = maxsize
    /\ eresult.key \notin pending_keys
    /\ eresult.key \notin active_keys
    /\ \A i \in 1..Len(queue) : queue[i].kind = "job"
    /\ total_enqueued = maxsize

\* C19: once the stop event is set, a worker thread that is alive
\* eventually returns from _worker_loop, whatever the queue holds (the
\* enqueue calls being finitely many), also when the queue was full and the
\* sentinel was dropped; and the push of the sentinel in stop() can always
\* be taken: it never waits for room in the queue.
C19_WorkerLeaves ==
    /\ \A w \in WorkerIds :
          (stop_event /\ is_alive(w)) ~> (wthread[w].pc = "dead")
    /\ [](stopper = "put" => ENABLED stop_put_sentinel)

\* C19 witness: stop() has returned with the event set and the sentinel
\* dropped on a full queue of jobs, the worker still polling.
C19_Witness ==
    /\ stop_event
    /\ stopper = "idle"
    /\ max_queue_size = MaxQueueSize
    /\ Len(queue) = maxsize
    /\ \A i \in 1..Len(queue) : queue[i].kind = "job"
    /\ wthread[FirstWorker].pc = "poll"
    /\ wthread[FirstWorker].item = STOP_SENTINEL
    /\ nstarted = 0

\* the job with id k waits in the queue with only jobs before it
QueuedBeforeSentinel(k) ==
    \E i \in 1..Len(queue) :
       /\ queue[i].kind = "job"
       /\ queue[i].id = k
       /\ \A j \in 1..i : queue[j].kind = "job"

\* C18: a sync run that raises does not end the worker thread; the worker
\* then counts the job in total_failed and not in total_processed, removes
\* its key from the active set, polls again with the queue as it was, and
\* every job waiting in the queue before a stop sentinel is started later.
C18_FailedJobGoesOn ==
    /\ [][\A w \in WorkerIds :
            /\ (wthread[w].pc = "run" /\ wthread'[w].pc # "run")
                  => wthread'[w].pc = "fin"
            /\ (wthread[w].pc = "fin" /\ ~wthread[w].success
                   /\ wthread'[w].pc # "fin") =>
                  /\ total_failed' = total_failed + 1
                  /\ total_processed' = total_processed
                  /\ dedupe_key(wthread[w].item.job) \notin active_keys'
                  /\ wthread'[w].pc = "poll"
                  /\ queue' = queue]_vars
    /\ \A w \in WorkerIds : \A k \in 1..MaxCalls :
          (wthread[w].pc = "fin" /\ ~wthread[w].success
              /\ QueuedBeforeSentinel(k))
          ~> (lastStarted = k)

\* C18 witness: after a failed job the same worker is executing the job
\* that was queued behind it.
C18_Witness ==
    /\ total_failed = 1
    /\ total_processed = 0
    /\ nstarted = 2
    /\ lastStarted = 2
    /\ wthread[FirstWorker].pc = "run"
    /\ active_keys = {dedupe_key(wthread[FirstWorker].item.job)}

\* the worker threads executing a job: started and not yet counted
Executing == {w \in WorkerIds : wthread[w].pc \in {"run", "fin"}}

\* C20: stop() changes nothing of the job being executed: its two steps
\* leave the worker threads, the active set and the totals alone, a worker
\* thread ends only from its poll, every job started is counted exactly once
\* in total_processed or total_failed when it ends, and a job being executed
\* goes on to the point where it is counted and its key is out of the active
\* set, the worker back at its poll.
C20_StopKeepsRunningJob ==
    /\ [][/\ stopper' # stopper =>
                UNCHANGED <<wthread, active_keys, total_processed, total_failed>>
          /\ \A w \in WorkerIds :
                (wthread'[w].pc = "dead" /\ wthread[w].pc # "dead")
                   => wthread[w].pc = "poll"]_vars
    /\ [](total_processed + total_failed + Cardinality(Executing) = nstarted)
    /\ [](active_keys = {dedupe_key(wthread[w].item.job) : w \in Executing})
    /\ \A w \in WorkerIds : \A k \in 1..MaxCalls :
          (stop_event /\ w \in Executing /\ nstarted = k)
          ~> (/\ total_processed + total_failed = k
              /\ wthread[w].pc = "poll"
              /\ active_keys = {})

\* C20 witness: stop() has returned, event set and sentinel queued, while
\* the worker is executing the job it took before.
C20_Witness ==
    /\ stop_event
    /\ stopper = "idle"
    /\ queue = <<STOP_SENTINEL>>
    /\ wthread[FirstWorker].pc = "run"
    /\ nstarted = 1
    /\ active_keys = {dedupe_key(wthread[FirstWorker].item.job)}
    /\ total_processed + total_failed = 0

\* a step in which a call of enqueue returns its result
EnqueueReturns ==
    \/ \E t \in Threads :
          ecall[t].pc \in {"full", "accepted"} /\ ecall'[t].pc = "idle"
    \/ ncalls' = ncalls + 1 /\ ecall' = ecall

\* a step in which do_POST sends a response
ResponseSent == response'.sent # response.sent

\* C21: a POST that reaches enqueue is answered in the step enqueue returns,
\* with status 202 exactly when the result is "accepted" or "duplicate"
\* and 429 exactly when it is "queue_full", and the response carries the
\* accepted, duplicate, reason, queue_size and key of that result, the key
\* being that of the job it shows.
C21_StatusOfEnqueue ==
    [][/\ EnqueueReturns =>
             /\ ResponseSent
             /\ response'.result = eresult'
             /\ response'.status \in {202, 429}
       /\ (ResponseSent /\ response'.status \notin {400, 401, 404}) =>
             /\ EnqueueReturns
             /\ response'.result = eresult'
             /\ response'.status = 202
                   <=> response'.result.reason \in {"accepted", "duplicate"}
             /\ response'.status = 429
                   <=> response'.result.reason = "queue_full"
             /\ response'.result.accepted
                   <=> response'.result.reason = "accepted"
             /\ response'.result.duplicate
                   <=> response'.result.reason = "duplicate"
             /\ response'.result.key = dedupe_key(response'.job)]_vars

\* C21 witness: after an accepted request, a request for another key has
\* been answered 429 with the queue_full result.
C21_Witness ==
    /\ response.status = 429
    /\ response.result.reason = "queue_full"
    /\ ~response.result.accepted /\ ~response.result.duplicate
    /\ response.result.queue_size = maxsize
    /\ response.sent = 2
    /\ total_enqueued = 1

\* the request carries the token of the server in one of the two headers
TokenMatches(srv, req) ==
    \/ /\ req.authorization # NoHeader
       /\ Lower(Strip(req.authorization.scheme)).base = "bearer"
       /\ Strip(req.authorization.credentials) = srv.auth_token
    \/ /\ req.x_converter_token # NoText
       /\ Strip(req.x_converter_token) = srv.auth_token

\* C22: a POST answered 404, 401 or 400 is answered without a call of
\* enqueue: the queue, the pending and active sets and the four counters
\* are as before; 404 is for an unknown path, 401 for a configured token
\* that neither header matches, 400 for a body that is not a JSON object or
\* a receiver_db or catalog_db missing after the merge with the defaults.
C22_RejectedNeverEnqueues ==
    [][(ResponseSent /\ response'.status \in {400, 401, 404}) =>
          /\ UNCHANGED <<queue, pending_keys, active_keys, total_enqueued,
                         total_duplicates, total_processed, total_failed,
                         ecall, ncalls, nput>>
          /\ response'.status = 404
                => response'.request.path \notin {"/trigger", "/enqueue"}
          /\ response'.status = 401
                => /\ server.auth_token # NoText
                   /\ ~TokenMatches(server, response'.request)
          /\ response'.status = 400
                => \/ response'.request.body.kind
                         \in {"bad_length", "not_json", "not_object"}
                   \/ first_non_empty(
                         read_json(response'.request.body).receiver_db,
                         server.default_receiver_db) = NoText
                   \/ first_non_empty(
                         read_json(response'.request.body).catalog_db,
                         server.default_catalog_db) = NoText]_vars

\* C22 witness: with a job queued and a key pending, a request with a wrong
\* token has been answered 401.
C22_Witness ==
    /\ response.status = 401
    /\ response.error = "invalid_token"
    /\ response.request.authorization # NoHeader
    /\ response.sent = 3
    /\ total_enqueued = 1
    /\ Len(queue) = 1
    /\ pending_keys # {}

\* an image URL of the catalog as the storage client is given it
ImageUrl(url) == Url("http", "storage.local", IMAGES \o <<url>>)

\* the URLs that the records of the call have as duplicate_image_urls
DiscardedUrls(s) ==
    UNION {{s.records[i].duplicate_image_urls[k] :
               k \in 1..Len(s.records[i].duplicate_image_urls)} :
           i \in 1..Len(s.records)}

\* C23: when upsert_many has returned, every image URL it recorded in the
\* duplicate_image_urls of a record of the call has been passed to
\* delete_images of the storage client
C23_DuplicatesDeleted ==
    session.status = "committed" =>
        \A url \in DiscardedUrls(session) :
           /\ storage.pc # "idle"
           /\ \E i \in 1..Len(storage.urls) : storage.urls[i] = ImageUrl(url)

\* every parser has at most one cursor row
OneCursorRow(cat) ==
    \A r1, r2 \in cat.sync_state : r1.key = r2.key => r1 = r2

\* C24 as stated: get_receiver_cursor(p) returns (None, None) while p has no
\* cursor row, after set_receiver_cursor(p, a, b) it returns (a, b), whatever
\* was set before, and there is one cursor row per parser
C24_CursorRoundTrip ==
    [][/\ called'.op = "get" /\ ~called'.row_found
            => /\ called'.error = "none"
               /\ called'.result = Cursor(NoStamp, NoInt)
       /\ called'.op = "set"
            => /\ get_receiver_cursor_error(catalog', called'.parser_name) = "none"
               /\ get_receiver_cursor(catalog', called'.parser_name)
                     = Cursor(called'.ingested_at, called'.product_id)
       /\ OneCursorRow(catalog')]_vars

\* C24, amended: get_receiver_cursor(p) returns (None, None) while p has no
\* cursor row; after set_receiver_cursor(p, a, b) it returns (a, b) with an
\* empty a returned as None, whatever was set before; and there is one
\* cursor row per parser
C24_CursorRoundTripSafeStr ==
    [][/\ called'.op = "get" /\ ~called'.row_found
            => /\ called'.error = "none"
               /\ called'.result = Cursor(NoStamp, NoInt)
       /\ called'.op = "set"
            => /\ get_receiver_cursor_error(catalog', called'.parser_name) = "none"
               /\ get_receiver_cursor(catalog', called'.parser_name)
                     = Cursor(safe_str(called'.ingested_at), called'.product_id)
       /\ OneCursorRow(catalog')]_vars

\* a get of a parser, spelled otherwise than the key of its row, returns the
\* pair that was set last for it, with the row of another parser in the table
C24_Witness ==
    /\ called.op = "get"
    /\ called.parser_name = Txt("fixprice", TRUE, TRUE)
    /\ called.result = Cursor(Stamp(2, "Z"), Some(0))
    /\ Cardinality(catalog.sync_state) = 2

\* the row of the parser is missing, or its value is not valid JSON or is
\* JSON that is not an object
MalformedCursor(cat, parser_name) ==
    \A r \in cursor_row(cat, parser_name) :
       r.value.kind \in {"text", "array", "string_scalar", "string_text"}

\* C25: get_receiver_cursor of either writer returns (None, None) and does
\* not raise when the cursor row of the parser is missing or malformed
C25_MalformedCursorIsNull ==
    called.op \in {"get", "mysql_get"} /\ MalformedCursor(catalog, called.parser_name)
        => /\ called.error = "none"
           /\ called.result = Cursor(NoStamp, NoInt)

\* max_batches = max(0, int(job.max_batches))
max_batches_of(j) == Max(0, j.max_batches)

\* the sum of the batch sizes of the events
RECURSIVE SumBatchSizes(_)
SumBatchSizes(evs) ==
    IF evs = <<>> THEN 0 ELSE Head(evs).batch_size + SumBatchSizes(Tail(evs))

\* C26: a run with max_batches = m > 0 starts a round (a batch fetched,
\* upserted, its cursor written) only while fewer than m were made, so it
\* makes at most m of them; the outcome has batches = the number of rounds
\* made, at most m, and total_processed = the sum of their batch sizes; a
\* run with max_batches = 0 leaves the loop only on an empty fetch
C26_MaxBatches ==
    [][/\ spc = "loop" /\ spc' = "fetched" /\ max_batches_of(sync_job) > 0
            => batches < max_batches_of(sync_job)
       /\ max_batches_of(sync_job) > 0
            => /\ batches' <= max_batches_of(sync_job)
               /\ Len(events') <= max_batches_of(sync_job)
       /\ spc' = "done"
            => /\ batches' = Len(events')
               /\ run_total' = SumBatchSizes(events')
       /\ spc = "loop" /\ spc' = "done" /\ max_batches_of(sync_job) = 0
            => fetched'.result = <<>>]_vars

\* a run has left the loop after max_batches rounds with records still to
\* fetch
C26_Witness ==
    /\ spc = "done"
    /\ max_batches_of(sync_job) > 0
    /\ batches = max_batches_of(sync_job)
    /\ Len(events) = batches
    /\ FetchOf(sync_job, watermark).result # <<>>

\* both of package_quantity and package_unit, or neither
Paired(package) == (package.package_quantity = NoInt) = (package.package_unit = None)

\* C27: the record handle(raw) returns has package_quantity and package_unit
\* both or neither; it has the pair of raw if raw has both, and the pair of
\* the title parser if raw has neither or one
C27_PackagePaired ==
    called.op = "handle"
        => /\ Paired(called.record)
           /\ called.raw.package_quantity # NoInt /\ called.raw.package_unit # None
                 => called.record = Package(called.raw.package_quantity,
                                            called.raw.package_unit)
           /\ called.raw.package_quantity = NoInt \/ called.raw.package_unit = None
                 => called.record = called.title

\* a raw record with a quantity and no unit was handled, and the record has
\* the pair the title parser found
C27_Witness ==
    /\ called.op = "handle"
    /\ called.raw.package_quantity # NoInt
    /\ called.raw.package_unit = None
    /\ called.title.package_unit = "LTR"
    /\ called.record = called.title

\* a reply that is neither 204 nor 404: another status, or no response
FailedDelete(reply) == reply.status \notin {204, 404}

\* C28: a DELETE answered 204 or 404 counts as done; after any other
\* response status or a transport failure delete_images logs a warning and
\* goes on with the remaining images if fail_on_error is false, and raises if
\* it is true
C28_BestEffortDelete ==
    /\ \A k \in 1..Len(storage.requests) :
          IF ~FailedDelete(storage.replies[k])
          THEN /\ \A w \in 1..Len(storage.warnings) :
                     storage.warnings[w] # storage.requests[k].image_name
               /\ k = Len(storage.requests) => storage.pc # "raised"
          ELSE IF storage.fail_on_error
          THEN k = Len(storage.requests) /\ storage.pc = "raised"
          ELSE /\ \E w \in 1..Len(storage.warnings) :
                     storage.warnings[w] = storage.requests[k].image_name
               /\ k = Len(storage.requests) => storage.pc # "raised"
    /\ storage.pc = "returned" => Len(storage.requests) = Len(storage.image_names)

\* a URL of the origin of the storage, or a path under one of the three
\* prefixes
FromStorage(origin, url) ==
    IF url.scheme # "" /\ url.netloc # ""
    THEN <<url.scheme, url.netloc>> = origin
    ELSE \/ startswith(strip(text(url)), API_IMAGES)
         \/ startswith(strip(text(url)), IMAGES)
         \/ startswith(strip(text(url)), IMAGES_RELATIVE)

\* the place of the first URL of the call that has the name
FirstSeen(name) ==
    CHOOSE i \in 1..Len(storage.urls) :
       /\ image_name_from_url(storage.origin, storage.urls[i]) = name
       /\ \A j \in 1..(i - 1) :
             image_name_from_url(storage.origin, storage.urls[j]) # name

\* C29: every DELETE of a delete_images call is for the name of a URL of the
\* call that is of the storage's origin, or a path under /api/images/,
\* /images/ or images/; the name has no slash, no backslash and no "..";
\* no name is requested twice, and the requests follow the order in which
\* the names are first seen in the list
C29_DeletesOwnImagesOnce ==
    \A k \in 1..Len(storage.requests) :
       /\ storage.requests[k].method = "DELETE"
       /\ \E i \in 1..Len(storage.urls) :
             /\ FromStorage(storage.origin, storage.urls[i])
             /\ image_name_from_url(storage.origin, storage.urls[i])
                   = storage.requests[k].image_name
       /\ \A c \in 1..Len(storage.requests[k].image_name) :
             storage.requests[k].image_name[c] \notin {"/", "\\"}
       /\ ~has_dotdot(storage.requests[k].image_name)
       /\ \A m \in 1..(k - 1) :
             /\ storage.requests[m].image_name # storage.requests[k].image_name
             /\ FirstSeen(storage.requests[m].image_name)
                   < FirstSeen(storage.requests[k].image_name)

\* a call with two different URLs of one image has returned after one
\* DELETE
C29_Witness ==
    /\ storage.pc = "returned"
    /\ Len(storage.urls) = 2
    /\ storage.urls[1] # storage.urls[2]
    /\ FromStorage(storage.origin, storage.urls[1])
    /\ image_name_from_url(storage.origin, storage.urls[1])
          = image_name_from_url(storage.origin, storage.urls[2])
    /\ Len(storage.requests) = 1

\* a job with the key is on the queue or with a worker thread that has not
\* finished it, or its enqueue call is about to put it on the queue
JobStands(key) ==
    \/ \E i \in 1..Len(queue) :
          queue[i].kind = "job" /\ dedupe_key(queue[i].job) = key
    \/ \E w \in WorkerIds :
          /\ wthread[w].pc \in {"got", "run", "fin"}
          /\ dedupe_key(wthread[w].item.job) = key
    \/ \E t \in Threads :
          ecall[t].pc = "put" /\ dedupe_key(ecall[t].job) = key

\* such a job has the key of the answer given last
AnswerStands == JobStands(eresult.key)

\* C30: when enqueue answers 'duplicate' for a key, a job with that key is
\* queued or being executed, or its own enqueue call is still to put it on
\* the queue, and that call is then not answered 'queue_full'
C30_DuplicateHasJob ==
    [][/\ total_duplicates' = total_duplicates + 1
            => AnswerStands'
       /\ \A t \in Threads :
             /\ ecall[t].pc = "put"
             /\ eresult.reason = "duplicate"
             /\ eresult.key = dedupe_key(ecall[t].job)
             => ecall'[t].pc # "full"]_vars

\* C34: in every state, as snapshot() reads the counters under the lock,
\* total_processed + total_failed <= total_enqueued: a job is not counted as
\* finished before it is counted as enqueued
C34_FinishedAfterEnqueued ==
    total_processed + total_failed <= total_enqueued

\* C38: the worker takes the key of a dequeued job out of pending and into
\* active before it runs the job, the key is active while the job runs and
\* leaves active when the run is over; no key is in both sets, at most one
\* key is active; and a key in neither set, as the key of a job that has
\* finished is, is not refused as a duplicate: its enqueue goes on to the
\* put and is accepted when the queue has room
C38_PendingThenActive ==
    [][/\ \A w \in WorkerIds :
             LET key == dedupe_key(wthread[w].item.job) IN
             /\ wthread[w].pc = "got" /\ wthread'[w].pc # "got"
                => /\ wthread'[w].pc = "run"
                   /\ key \notin pending_keys'
                   /\ key \in active_keys'
             /\ wthread[w].pc = "run" => key \in active_keys \ pending_keys
             /\ wthread[w].pc = "fin" /\ wthread'[w].pc # "fin"
                => key \notin active_keys' /\ key \notin pending_keys'
       /\ pending_keys' \cap active_keys' = {}
       /\ Cardinality(active_keys') <= 1
       /\ \A t \in Threads, job \in JobInputs :
             /\ ecall[t].pc = "idle" /\ ecall'[t].pc # "idle"
                /\ ecall'[t].job = job
                /\ dedupe_key(job) \notin pending_keys \cup active_keys
                => /\ ecall'[t].pc = "put"
                   /\ total_duplicates' = total_duplicates
             /\ ecall[t].pc = "put" /\ ecall'[t].pc # "put" /\ Len(queue) < maxsize
                => ecall'[t].pc = "accepted"
       /\ total_duplicates' = total_duplicates + 1
             => eresult'.key \in pending_keys \cup active_keys]_vars

\* C38 witness: a job has finished, and an enqueue made afterwards with the
\* key of that job (the first call, with that key, is still before its
\* count) has been answered 'accepted'
C38_Witness ==
    /\ total_processed + total_failed = 1
    /\ nput = 2
    /\ eresult.reason = "accepted"
    /\ \E t \in Threads :
          ecall[t].pc = "accepted" /\ dedupe_key(ecall[t].job) = eresult.key

\* the job with id k is on the queue: its enqueue is or will be answered
\* 'accepted'
Accepted(k) ==
    \E i \in 1..Len(queue) : queue[i].kind = "job" /\ queue[i].id = k

\* C35: once start() has returned, and until stop() is called again, a
\* worker thread is alive, and every job put on the queue is started by it,
\* whatever calls of start and stop came before
C35_StartedWorkerRuns ==
    /\ [](started => worker # "none" /\ is_alive(worker))
    /\ \A k \in 1..MaxCalls :
          (started /\ Accepted(k)) ~> (lastStarted = k \/ ~started)

\* a sync run for the key of the answer given last is still to come: a job
\* with that key is with an enqueue call before its put, is on the queue, or
\* is with a worker thread that has not yet run it
RunAhead ==
    \/ \E t \in Threads :
          ecall[t].pc = "put" /\ dedupe_key(ecall[t].job) = eresult.key
    \/ \E i \in 1..Len(queue) :
          queue[i].kind = "job" /\ dedupe_key(queue[i].job) = eresult.key
    \/ \E w \in WorkerIds :
          /\ wthread[w].pc \in {"got", "run"}
          /\ dedupe_key(wthread[w].item.job) = eresult.key

\* C31: when enqueue answers 'accepted' or 'duplicate' for a key while the
\* worker is running (alive, and not told to stop), a sync run for that key,
\* and with it a fetch from the receiver, is still to come, also when a job
\* with the key is being executed at that moment
C31_NoTriggerLost ==
    [][(/\ \/ total_duplicates' = total_duplicates + 1
           \/ total_enqueued' = total_enqueued + 1
        /\ worker # "none"
        /\ is_alive(worker)
        /\ ~stop_event)
       => RunAhead']_vars

\* the snapshot rows written for an observation of the receiver: those with
\* the parser and the source id of its record (the rows of RowPool have
\* source ids of their own, so these are the snapshots of this observation)
ObservationSnapshots(row) ==
    {s \in catalog.product_snapshots :
        /\ s.parser_name = handle(map_receiver_row_to_raw_product(row)).parser_name
        /\ s.source_id =
              source_id_of(handle(map_receiver_row_to_raw_product(row)))}

\* C32: when a job with max_batches = 0 has ended successfully over a
\* receiver that did not change, nothing having been processed before it
\* (the snapshots of the catalog are those of its batches), every
\* observation of the job's parser was in a batch given to upsert_many and
\* none was returned by two fetches: each has exactly one snapshot
C32_EveryObservationOnce ==
    (/\ execution = "success"
     /\ spc = "idle"
     /\ sync_job.max_batches = 0
     /\ Cardinality(catalog.product_snapshots) = run_total)
    => \A r \in RowsOf(sync_job) : Cardinality(ObservationSnapshots(r)) = 1

\* the observation of a raw record is committed: a snapshot of its parser
\* and source id is in the catalog
Committed(raw) ==
    \E s \in catalog.product_snapshots :
       /\ s.parser_name = handle(raw).parser_name
       /\ s.source_id = source_id_of(handle(raw))

\* C33: when a job has failed, at fetch_batch, handle, upsert_many or
\* set_receiver_cursor, every observation of the batch it held is committed
\* in the catalog or is still strictly above the persisted cursor as
\* fetch_batch compares it, so the next job of the parser fetches it; and
\* the persisted cursor, when there is one, is the pair of an observation
\* that is committed: it is never ahead of the committed data
C33_FailureLosesNothing ==
    /\ (execution = "failed" /\ spc = "idle")
       => \A i \in 1..Len(raw_records) :
             \/ Committed(raw_records[i])
             \/ Above(StoredKey(raw_records[i]),
                      get_receiver_cursor(catalog, parser_name_of(sync_job)).ingested_at,
                      get_receiver_cursor(catalog, parser_name_of(sync_job)).product_id)
    /\ get_receiver_cursor(catalog, parser_name_of(sync_job)) # Cursor(NoStamp, NoInt)
       => \E r \in RowsOf(sync_job) :
             /\ record_key(map_receiver_row_to_raw_product(r)) = PersistedCursor
             /\ Committed(map_receiver_row_to_raw_product(r))

\* C33 witness: the second batch of a job failed in upsert_many; none of its
\* observations is committed and each is above the cursor of the first batch
C33_Witness ==
    /\ execution = "failed"
    /\ spc = "idle"
    /\ session.status = "failed"
    /\ batches = 1
    /\ raw_records # <<>>
    /\ \A i \in 1..Len(raw_records) :
          /\ ~Committed(raw_records[i])
          /\ Above(StoredKey(raw_records[i]), PersistedCursor.ingested_at,
                   Some(PersistedCursor.product_id))

\* the canonical ids the identity map of db holds for an identity
IdentityIds(db, rec, identity_type, identity_value) ==
    {r.canonical_product_id :
        r \in get_identity_map_row(db, Lower(Strip(rec.parser_name)),
                                   identity_type, identity_value)}

\* the ids of the first identity of the record that the map of db knows, in
\* the order plu, sku, source_id and then the normalized-name key
\* (title_normalized_no_stopwords, else title_normalized); none if the map
\* knows none of them
FirstHit(db, rec) ==
    IF rec.plu # None /\ IdentityIds(db, rec, "plu", Str(rec.plu)) # {}
    THEN IdentityIds(db, rec, "plu", Str(rec.plu))
    ELSE IF rec.sku # None /\ IdentityIds(db, rec, "sku", Str(rec.sku)) # {}
    THEN IdentityIds(db, rec, "sku", Str(rec.sku))
    ELSE IF /\ rec.source_id # NoSourceId
            /\ IdentityIds(db, rec, "source_id", rec.source_id) # {}
    THEN IdentityIds(db, rec, "source_id", rec.source_id)
    ELSE IF rec.title_normalized_no_stopwords # ""
    THEN IdentityIds(db, rec, "normalized_name",
                     Str(rec.title_normalized_no_stopwords))
    ELSE IF rec.title_normalized # ""
    THEN IdentityIds(db, rec, "normalized_name", Str(rec.title_normalized))
    ELSE {}

\* every identity of the record, its normalized-name key included, has a row
\* in the map of db, with this id
AllMapTo(db, rec, id) ==
    /\ rec.plu # None => IdentityIds(db, rec, "plu", Str(rec.plu)) = {id}
    /\ rec.sku # None => IdentityIds(db, rec, "sku", Str(rec.sku)) = {id}
    /\ rec.source_id # NoSourceId
       => IdentityIds(db, rec, "source_id", rec.source_id) = {id}
    /\ rec.title_normalized_no_stopwords # ""
       => IdentityIds(db, rec, "normalized_name",
                      Str(rec.title_normalized_no_stopwords)) = {id}
    /\ rec.title_normalized_no_stopwords = "" /\ rec.title_normalized # ""
       => IdentityIds(db, rec, "normalized_name", Str(rec.title_normalized)) = {id}

\* C37: a round of upsert_many resolves the id of its record to the id of
\* the first identity-map hit in the order plu, sku, source_id, to the id of
\* the normalized-name key when these all miss, and to a fresh id (no row of
\* the catalog has it, one more uuid is drawn) only when that misses too;
\* after the round every identity of the record, the normalized-name key
\* included, maps to that id
C37_IdentityResolution ==
    [][RecordUpserted =>
          LET rec == session.records[session.pos]
          IN IF FirstHit(session.db, rec) # {}
             THEN /\ uuid' = uuid
                  /\ \A id \in FirstHit(session.db, rec) :
                        AllMapTo(session'.db, rec, id)
             ELSE /\ uuid' = uuid + 1
                  /\ uuid' \notin IdsIn(session.db)
                  /\ AllMapTo(session'.db, rec, uuid')]_vars

\* C37 witness: the first record of a call was resolved to the id its plu
\* had, not to the other id its source_id had, and both map to it now
C37_Witness ==
    /\ session.status = "open"
    /\ session.pos = 2
    /\ \E id \in IdsIn(catalog) :
          /\ IdentityIds(catalog, session.records[1], "plu",
                         Str(session.records[1].plu)) = {id}
          /\ IdentityIds(catalog, session.records[1], "source_id",
                         session.records[1].source_id) \notin {{}, {id}}
          /\ AllMapTo(session.db, session.records[1], id)

\* the rows of a table of the session, stored or pending, that belong to the
\* (parser_name, source_id) of a record
SessionRows(stored, pending, parser_name, rec) ==
    {r \in stored \cup {pending[i] : i \in 1..Len(pending)} :
        r.parser_name = parser_name /\ r.source_id = source_id_of(rec)}

\* C36: after a round of upsert_many the canonical_product_id of the
\* snapshot row written in the round, of the catalog_product_sources row and
\* of the catalog_products row of the record, and of the record in memory
\* are all the same id
C36_OneIdEverywhere ==
    [][RecordUpserted =>
          LET rec == session'.records[session.pos]
              id == rec.canonical_product_id[1]
              snapshots == session'.db.product_snapshots
                              \ session.db.product_snapshots
              sources == SessionRows(session'.db.product_sources,
                                     session'.new.product_sources,
                                     Lower(Strip(rec.parser_name)), rec)
              products == SessionRows(session'.db.products,
                                      session'.new.products,
                                      rec.parser_name, rec)
          IN /\ \A row \in snapshots : row.canonical_product_id = id
             /\ \A row \in sources : row.canonical_product_id = id
             /\ \A row \in products : row.canonical_product_id = id]_vars

\* the catalog_product_sources rows session.get can find for the key of a
\* snapshot during the round of a record: the stored rows, and the pending
\* ones when the flush of _link_snapshot_categories writes them first
VisibleSources(s, rec, snapshot) ==
    {r \in s.db.product_sources
           \cup (IF rec.categories
                 THEN {s.new.product_sources[i] :
                          i \in 1..Len(s.new.product_sources)}
                 ELSE {}) :
        /\ r.parser_name = Lower(Strip(snapshot.parser_name))
        /\ r.source_id = snapshot.source_id}

\* C39: a round of upsert_many for a record whose (parser_name, source_id)
\* has a catalog_product_sources row sets the row's last_seen_at to the
\* later of its last_seen_at and observed_at, its latest_snapshot_id to the
\* snapshot of the round, changes nothing else of it (first_seen_at and the
\* canonical id stay) and leaves the row's canonical id in the record;
\* without such a row it adds a row with first_seen_at = last_seen_at =
\* observed_at; first_seen_at <= last_seen_at in every row, stored or pending
C39_SourceRowSeen ==
    /\ [](\A r \in catalog.product_sources \cup session.db.product_sources
                      \cup {session.new.product_sources[i] :
                               i \in 1..Len(session.new.product_sources)} :
              r.first_seen_at <= r.last_seen_at)
    /\ [][RecordUpserted =>
             LET rec == session.records[session.pos]
                 pending == session'.new.product_sources
             IN \A snapshot \in session'.db.product_snapshots
                                    \ session.db.product_snapshots :
                   IF VisibleSources(session, rec, snapshot) = {}
                   THEN /\ Len(pending) > 0
                        /\ pending[Len(pending)] =
                              [parser_name |->
                                   Lower(Strip(snapshot.parser_name)),
                               source_id |-> snapshot.source_id,
                               canonical_product_id |->
                                   snapshot.canonical_product_id,
                               latest_snapshot_id |-> snapshot.id,
                               first_seen_at |-> rec.observed_at,
                               last_seen_at |-> rec.observed_at]
                   ELSE \A row \in VisibleSources(session, rec, snapshot) :
                           /\ [row EXCEPT
                                 !.latest_snapshot_id = snapshot.id,
                                 !.last_seen_at =
                                     IF @ >= rec.observed_at
                                     THEN @ ELSE rec.observed_at]
                                 \in session'.db.product_sources
                           /\ session'.records[session.pos]
                                 .canonical_product_id =
                                 Some(row.canonical_product_id)]_vars

\* C39 witness: a stored row was seen again by a record observed earlier
\* than its last_seen_at: it points at the snapshot of that record and
\* keeps its times
C39_Witness ==
    /\ session.status = "open"
    /\ \E row \in session.db.product_sources :
       \E snapshot \in session.db.product_snapshots :
          /\ row.latest_snapshot_id = snapshot.id
          /\ snapshot.observed_at < row.last_seen_at
          /\ row.first_seen_at = row.last_seen_at

\* the text columns and the float columns _upsert_settlement fills
SettlementTexts ==
    {"country_raw", "country_normalized", "region_raw", "region_normalized",
     "name_raw", "name_normalized", "settlement_type"}

SettlementFloats == {"latitude", "longitude"}

\* the catalog_settlement_geodata rows of a session, stored or pending
GeodataOf(s) ==
    s.db.settlement_geodata
    \cup {s.new.settlement_geodata[i] : i \in 1..Len(s.new.settlement_geodata)}

\* C40: a round of upsert_many for a record whose geo key is the key of a
\* catalog_settlements row leaves every attribute of the row that is not
\* missing as it is, fills a missing one only with the record's value and
\* adds no settlement row; no two rows have one geo key in any state, within
\* a batch too; a geodata row is added in a round only when the record has
\* latitude and longitude and no geodata row, stored or pending, had the
\* fingerprint of (settlement id, latitude, longitude)
C40_SettlementsAdditive ==
    /\ [](\A r1, r2 \in session.db.settlements \cup catalog.settlements :
             r1.geo_key = r2.geo_key => r1.id = r2.id)
    /\ [][RecordUpserted =>
             LET rec == session.records[session.pos]
                 keys == {geo_key(geo) : geo \in extract_geo_components(rec)}
                 matching == {row \in session.db.settlements :
                                 row.geo_key \in keys}
             IN /\ \A row \in matching :
                   \E new \in session'.db.settlements :
                   \E geo \in extract_geo_components(rec) :
                      /\ new.id = row.id
                      /\ new.geo_key = row.geo_key
                      /\ \A a \in SettlementTexts :
                            new[a] = IF is_missing_text(row[a])
                                     THEN geo[a] ELSE row[a]
                      /\ \A a \in SettlementFloats :
                            new[a] = IF is_missing_number(row[a])
                                     THEN geo[a] ELSE row[a]
                /\ matching # {}
                      => Cardinality(session'.db.settlements)
                            = Cardinality(session.db.settlements)
                /\ \A row \in GeodataOf(session') \ GeodataOf(session) :
                      /\ rec.geo.latitude # NoInt
                      /\ rec.geo.longitude # NoInt
                      /\ row.geo_fingerprint =
                            geo_fingerprint(row.settlement_id,
                                            rec.geo.latitude[1],
                                            rec.geo.longitude[1])
                      /\ \A old \in GeodataOf(session) :
                            old.geo_fingerprint # row.geo_fingerprint]_vars

\* C40 witness: the second record of a batch had the geo key of the first:
\* the one settlement row keeps the country and the latitude of the first,
\* which the second writes otherwise, has the settlement type only the
\* second carries, and the geodata row of the first is the only one, the
\* second having its fingerprint
C40_Witness ==
    /\ session.status = "open"
    /\ session.pos = 3
    /\ Len(session.new.settlement_geodata) = 1
    /\ session.records[2].geo.latitude # NoInt
    /\ session.records[2].geo.longitude # NoInt
    /\ is_missing_text(session.records[1].geo.settlement_type)
    /\ \E row \in session.db.settlements :
          /\ session.db.settlements = {row}
          /\ row.country_raw = safe_text(session.records[1].geo.country)
          /\ row.country_raw # safe_text(session.records[2].geo.country)
          /\ row.latitude = session.records[1].geo.latitude
          /\ row.latitude # session.records[2].geo.latitude
          /\ row.settlement_type = session.records[2].geo.settlement_type
          /\ ~is_missing_text(row.settlement_type)

(***************************************************************************)
(* Specifications.                                                         *)
(***************************************************************************)
ReceiverIdle ==
    /\ receiver = {}
    /\ fetched = NoFetch

Next ==
    \/ start
    \/ stop_set_event
    \/ stop_put_sentinel
    \/ \E t \in Threads, j \in JobInputs :
          enqueue_check(t, j) /\ UNCHANGED response
    \/ \E t \in Threads : enqueue_put(t)
    \/ \E t \in Threads : enqueue_full(t) /\ UNCHANGED response
    \/ \E t \in Threads : enqueue_accepted(t) /\ UNCHANGED response
    \/ \E w \in WorkerIds : worker_get(w)
    \/ \E w \in WorkerIds : worker_move(w)
    \/ \E w \in WorkerIds : run_job(w)
    \/ \E w \in WorkerIds : worker_finish(w)

Init ==
    /\ DaemonInit
    /\ server = ServerDefault
    /\ response = NoResponse
    /\ ReceiverIdle /\ SyncIdle /\ CatalogInit /\ StorageIdle

\* a daemon constructed and never started, while the pipeline is exercised
DaemonIdle ==
    /\ DaemonInit
    /\ max_queue_size = MaxQueueSize
    /\ server = ServerDefault
    /\ response = NoResponse

InitCatalog ==
    DaemonIdle /\ ReceiverIdle /\ SyncIdle /\ CatalogInit /\ StorageIdle

\* the daemon
Spec == Init /\ [][Next]_vars

\* the worker thread is scheduled: a step of _worker_loop that can be taken
\* is taken, and the sync run of a job returns or raises
WorkerRuns ==
    \A w \in WorkerIds :
       /\ WF_vars(worker_get(w))
       /\ WF_vars(worker_move(w))
       /\ WF_vars(run_job(w))
       /\ WF_vars(worker_finish(w))

\* the daemon behind its HTTP server: every enqueue call is made by do_POST
InitHTTP ==
    /\ DaemonInit
    /\ server \in ServerInputs
    /\ response = NoResponse
    /\ ReceiverIdle /\ SyncIdle /\ CatalogInit /\ StorageIdle

NextHTTP ==
    \/ \E t \in Threads, req \in RequestInputs : do_POST(t, req)
    \/ \E t \in Threads : enqueue_put(t)
    \/ \E t \in Threads : do_POST_full(t)
    \/ \E t \in Threads : do_POST_accepted(t)
    \/ start
    \/ \E w \in WorkerIds : worker_get(w)
    \/ \E w \in WorkerIds : worker_move(w)
    \/ \E w \in WorkerIds : run_job(w)
    \/ \E w \in WorkerIds : worker_finish(w)

SpecHTTP == InitHTTP /\ [][NextHTTP]_vars

\* the daemon with a worker thread that keeps running
SpecLive == Init /\ [][Next]_vars /\ WorkerRuns

InitSync ==
    /\ DaemonIdle
    /\ receiver \in ReceiverContents
    /\ fetched = NoFetch
    /\ sync_job \in SyncJobs
    /\ spc = "idle"
    /\ watermark = Cursor(NoStamp, NoInt)
    /\ raw_records = <<>>
    /\ batches = 0
    /\ run_total = 0
    /\ events = <<>>
    /\ execution = "none"
    /\ CatalogInit
    /\ StorageIdle

NextSync ==
    \/ sync_run
    \/ sync_fetch
    \/ sync_upsert
    \/ upsert_record
    \/ upsert_commit
    \/ upsert_raise
    \/ sync_set_cursor
    \/ sync_raise
    \/ sync_fail
    \/ sync_return

\* runs of one sync job over a receiver that does not change
SpecSync == InitSync /\ [][NextSync]_vars

NextCatalog ==
    \/ \E records \in BatchInputs : upsert_many(records)
    \/ upsert_record
    \/ upsert_commit
    \/ upsert_raise

\* calls of upsert_many on a catalog that starts empty
SpecCatalog == InitCatalog /\ [][NextCatalog]_vars

InitFetch ==
    /\ DaemonIdle
    /\ receiver \in ReceiverContents
    /\ fetched = NoFetch
    /\ SyncIdle
    /\ CatalogInit
    /\ StorageIdle

\* fetch_batch only reads, so a call depends on nothing an earlier call did:
\* a behaviour makes one call
NextFetch ==
    /\ fetched = NoFetch
    /\ \E limit \in FetchLimits, parser_name \in FetchParsers,
          after_ingested_at \in FetchStamps, after_product_id \in FetchIds :
           fetch_call(limit, parser_name, after_ingested_at, after_product_id)

\* a call of fetch_batch, with any arguments, on any receiver content
SpecFetch == InitFetch /\ [][NextFetch]_vars

NextMySQL ==
    \/ \E records \in BatchInputs : mysql_upsert_many(records)
    \/ mysql_upsert_record
    \/ mysql_commit
    \/ mysql_raise

\* sequences of upsert_many calls on the MySQL catalog
SpecMySQL == InitCatalog /\ [][NextMySQL]_vars

InitStorage ==
    /\ DaemonIdle /\ ReceiverIdle /\ SyncIdle /\ CatalogInit
    /\ called = NoCall
    /\ storage \in {StorageHTTPRepository(BASE_ORIGIN, fail_on_error) :
                       fail_on_error \in BOOLEAN}

NextStorage ==
    \/ \E urls \in UrlLists : delete_images(urls)
    \/ \E reply \in Replies : delete_one(reply)

\* delete_images keeps nothing from one call to the next: a behaviour makes
\* one call, with any list of URLs, on a client of either mode
SpecStorage == InitStorage /\ [][NextStorage]_vars

InitCursor ==
    /\ DaemonIdle /\ ReceiverIdle /\ SyncIdle /\ StorageIdle
    /\ catalog \in {[EmptyCatalog EXCEPT !.sync_state = t] : t \in CursorTables}
    /\ session = NoSession
    /\ uuid = 0
    /\ submitted = 0
    /\ carried = {}

NextCursor ==
    \/ \E p \in CursorParsers : cursor_get(p)
    \/ \E p \in CursorParsers, a \in CursorStamps, b \in CursorIds :
          cursor_set(p, a, b)
    \/ \E p \in CursorParsers : mysql_cursor_get(p)
    \/ \E p \in CursorParsers, a \in CursorStamps, b \in CursorIds :
          mysql_cursor_set(p, a, b)

\* calls of the cursor API of either writer on a converter_sync_state table
SpecCursor == InitCursor /\ [][NextCursor]_vars

NextHandle ==
    \E parser_name \in HandlerNames, raw \in RawInputs :
       handle_call(parser_name, raw)

\* calls of handle, of the handlers of two parsers, on any raw record
SpecHandle == InitCatalog /\ [][NextHandle]_vars

====
